---- MODULE Spec2Model ----
(***************************************************************************)
(* Model of the Citibike query engine: the record pipeline                 *)
(* processShardData (src/src/lib/queryProcessor.ts) run as a state machine *)
(* with one action per pipeline step.                                      *)
(*                                                                         *)
(* JavaScript values are tagged records of one shape, so that values of    *)
(* different JavaScript types can be compared:                             *)
(*   [t |-> tag, n |-> Int, s |-> string, a |-> array of numbers]          *)
(* A JavaScript string is a sequence of one-character strings, so that     *)
(* split, parseInt, String(), toLowerCase and includes are computed on the *)
(* characters as the engine computes them.  A JavaScript object is a       *)
(* function from property names to values.                                 *)
(***************************************************************************)
EXTENDS Integers, Sequences, FiniteSets, TLC

(* processShardData: its arguments, its local `data`, the step to run next
   and the rows that entered the step that ran last. *)
VARIABLES trips, queryPlan, data, pc, entered

(* processIndexData: its arguments, its locals `dates`, `grouped` and
   `result`, and the step to run next. *)
VARIABLES indexData, indexPlan, dates, groupedDays, indexResult, ipc

(* The POST handler of /api/query: the request, the environment's API key,
   the planner's reply, the place the handler has reached, the state of each
   shard fetch, the values and the state of the Promise.all over them, the
   responses returned, and, as history, the calls of the two processors, the
   URLs fetched and the order in which the shard fetches settled. *)
VARIABLES request, apiKey, reply, hpc, fetchState, shardDataArrays, promiseAll,
          responses, invocations, fetchLog, arrivals

shardVars == <<trips, queryPlan, data, pc, entered>>

indexVars == <<indexData, indexPlan, dates, groupedDays, indexResult, ipc>>

handlerVars ==
  <<request, apiKey, reply, hpc, fetchState, shardDataArrays, promiseAll,
    responses, invocations, fetchLog, arrivals>>

vars == <<shardVars, indexVars, handlerVars>>

----------------------------------------------------------------------------
(* JavaScript values *)

Num(k) == [t |-> "num", n |-> k, s |-> <<>>, a |-> <<>>]
Str(cs) == [t |-> "str", n |-> 0, s |-> cs, a |-> <<>>]
Bool(b) == [t |-> "bool", n |-> IF b THEN 1 ELSE 0, s |-> <<>>, a |-> <<>>]
Arr(xs) == [t |-> "arr", n |-> 0, s |-> <<>>, a |-> xs]
Undefined == [t |-> "undef", n |-> 0, s |-> <<>>, a |-> <<>>]
NaN == [t |-> "nan", n |-> 0, s |-> <<>>, a |-> <<>>]
PosInfinity == [t |-> "inf", n |-> 0, s |-> <<>>, a |-> <<>>]
NegInfinity == [t |-> "ninf", n |-> 0, s |-> <<>>, a |-> <<>>]

IsNumber(v) == v.t \in {"num", "nan", "inf", "ninf"}

(* An optional plan entry: absent, or present with a value. *)
None == <<>>
Some(x) == <<x>>
IsSet(o) == o # <<>>
Val(o) == o[1]

(* obj[name]: a property the object lacks reads as undefined. *)
Get(obj, name) == IF name \in DOMAIN obj THEN obj[name] ELSE Undefined

(* obj[name] = v on the object *)
Put(obj, name, v) == (name :> v) @@ obj

----------------------------------------------------------------------------
(* Characters and strings *)

Digits == <<"0", "1", "2", "3", "4", "5", "6", "7", "8", "9">>

Upper == <<"A", "B", "C", "D", "E", "F", "G", "H", "I", "J", "K", "L", "M",
           "N", "O", "P", "Q", "R", "S", "T", "U", "V", "W", "X", "Y", "Z">>

Lower == <<"a", "b", "c", "d", "e", "f", "g", "h", "i", "j", "k", "l", "m",
           "n", "o", "p", "q", "r", "s", "t", "u", "v", "w", "x", "y", "z">>

(* The characters in code-unit order. *)
Alphabet ==
  <<" ", ",", "-", ".">> \o Digits \o <<":">> \o Upper \o <<"_">> \o Lower

IndexIn(c, table) == CHOOSE i \in 1..Len(table) : table[i] = c

IsDigit(c) == \E i \in 1..Len(Digits) : Digits[i] = c

DigitVal(c) == IndexIn(c, Digits) - 1

CharCode(c) == IndexIn(c, Alphabet)

LowerChar(c) ==
  IF \E i \in 1..Len(Upper) : Upper[i] = c THEN Lower[IndexIn(c, Upper)] ELSE c

(* String.prototype.toLowerCase *)
ToLowerCase(cs) == [i \in 1..Len(cs) |-> LowerChar(cs[i])]

(* String.prototype.includes *)
Includes(cs, sub) ==
  \E i \in 0..(Len(cs) - Len(sub)) :
    \A j \in 1..Len(sub) : cs[i + j] = sub[j]

(* String.prototype.split on a one-character separator *)
RECURSIVE SplitFrom(_, _, _, _)
SplitFrom(cs, sep, i, cur) ==
  IF i > Len(cs) THEN <<cur>>
  ELSE IF cs[i] = sep THEN <<cur>> \o SplitFrom(cs, sep, i + 1, <<>>)
  ELSE SplitFrom(cs, sep, i + 1, Append(cur, cs[i]))

Split(cs, sep) == SplitFrom(cs, sep, 1, <<>>)

(* The value of the longest prefix of digits of cs[i..], read in base 10. *)
RECURSIVE DigitsFrom(_, _, _)
DigitsFrom(cs, i, acc) ==
  IF i > Len(cs) \/ ~IsDigit(cs[i]) THEN acc
  ELSE DigitsFrom(cs, i + 1, 10 * acc + DigitVal(cs[i]))

(* parseInt(string): leading blanks, an optional sign, the digits that follow;
   NaN when no digit follows. *)
RECURSIVE SkipBlanks(_, _)
SkipBlanks(cs, i) ==
  IF i <= Len(cs) /\ cs[i] = " " THEN SkipBlanks(cs, i + 1) ELSE i

ParseInt(cs) ==
  LET i == SkipBlanks(cs, 1)
      neg == i <= Len(cs) /\ cs[i] = "-"
      j == IF neg THEN i + 1 ELSE i
  IN IF j > Len(cs) \/ ~IsDigit(cs[j]) THEN NaN
     ELSE Num((IF neg THEN -1 ELSE 1) * DigitsFrom(cs, j, 0))

(* The decimal digits of a natural number. *)
RECURSIVE NatToString(_)
NatToString(k) ==
  IF k < 10 THEN <<Digits[k + 1]>>
  ELSE Append(NatToString(k \div 10), Digits[(k % 10) + 1])

IntToString(k) == IF k < 0 THEN <<"-">> \o NatToString(-k) ELSE NatToString(k)

Chars_undefined == <<"u", "n", "d", "e", "f", "i", "n", "e", "d">>
Chars_true == <<"t", "r", "u", "e">>
Chars_false == <<"f", "a", "l", "s", "e">>
Chars_NaN == <<"N", "a", "N">>
Chars_Infinity == <<"I", "n", "f", "i", "n", "i", "t", "y">>

RECURSIVE JoinNums(_)
JoinNums(xs) ==
  IF xs = <<>> THEN <<>>
  ELSE IF Len(xs) = 1 THEN IntToString(xs[1])
  ELSE IntToString(xs[1]) \o <<",">> \o JoinNums(Tail(xs))

(* String(value) *)
JsString(v) ==
  CASE v.t = "str" -> v.s
    [] v.t = "num" -> IntToString(v.n)
    [] v.t = "bool" -> IF v.n = 1 THEN Chars_true ELSE Chars_false
    [] v.t = "undef" -> Chars_undefined
    [] v.t = "nan" -> Chars_NaN
    [] v.t = "inf" -> Chars_Infinity
    [] v.t = "ninf" -> <<"-">> \o Chars_Infinity
    [] v.t = "arr" -> JoinNums(v.a)

(* A string that is all blanks. *)
IsBlank(cs) == \A i \in 1..Len(cs) : cs[i] = " "

(* An optional sign followed by digits only. *)
IsIntLiteral(cs) ==
  LET j == IF Len(cs) > 0 /\ cs[1] = "-" THEN 2 ELSE 1
  IN /\ j <= Len(cs)
     /\ \A i \in j..Len(cs) : IsDigit(cs[i])

(* Number(value): the numeric coercion. *)
ToNumber(v) ==
  CASE IsNumber(v) -> v
    [] v.t = "bool" -> Num(v.n)
    [] v.t = "undef" -> NaN
    [] v.t = "str" ->
         IF IsBlank(v.s) THEN Num(0)
         ELSE IF IsIntLiteral(v.s) THEN ParseInt(v.s)
         ELSE NaN
    [] v.t = "arr" ->
         IF Len(v.a) = 0 THEN Num(0)
         ELSE IF Len(v.a) = 1 THEN Num(v.a[1])
         ELSE NaN

(* A number is falsy when it is 0 or NaN. *)
NumberTruthy(v) == ~(v.t = "nan" \/ (v.t = "num" /\ v.n = 0))

(* Number(value) || fallback *)
NumberOr(v, fallback) ==
  IF NumberTruthy(ToNumber(v)) THEN ToNumber(v) ELSE fallback

(* ToPrimitive for the relational operators: an array becomes its string. *)
ToPrimitive(v) == IF v.t = "arr" THEN Str(JoinNums(v.a)) ELSE v

(* Strings compared by code units. *)
RECURSIVE StringLess(_, _, _)
StringLess(x, y, i) ==
  IF i > Len(y) THEN FALSE
  ELSE IF i > Len(x) THEN TRUE
  ELSE IF x[i] = y[i] THEN StringLess(x, y, i + 1)
  ELSE CharCode(x[i]) < CharCode(y[i])

(* Numbers compared; the caller excludes NaN. *)
NumberLess(x, y) ==
  CASE x.t = "ninf" -> y.t # "ninf"
    [] x.t = "inf" -> FALSE
    [] x.t = "num" -> y.t = "inf" \/ (y.t = "num" /\ x.n < y.n)

(* The abstract relational comparison x < y: "true", "false" or "undefined"
   (an operand is NaN). *)
Compare(x, y) ==
  LET px == ToPrimitive(x)
      py == ToPrimitive(y)
  IN IF px.t = "str" /\ py.t = "str"
     THEN (IF StringLess(px.s, py.s, 1) THEN "true" ELSE "false")
     ELSE LET nx == ToNumber(px)
              ny == ToNumber(py)
          IN IF nx.t = "nan" \/ ny.t = "nan" THEN "undefined"
             ELSE IF NumberLess(nx, ny) THEN "true" ELSE "false"

(* x < y, x > y, x >= y *)
JsLess(x, y) == Compare(x, y) = "true"
JsGreater(x, y) == Compare(y, x) = "true"
JsGreaterEq(x, y) == Compare(x, y) = "false"

(* x === y: the same type and the same value; NaN equals nothing, and an
   array is equal only to itself (never to a literal of the plan). *)
StrictEquals(x, y) ==
  /\ x.t = y.t
  /\ x.t \notin {"nan", "arr"}
  /\ x = y

(* value[i] (i from 0) of a plan value *)
ElementAt(v, i) ==
  CASE v.t = "arr" -> IF i < Len(v.a) THEN Num(v.a[i + 1]) ELSE Undefined
    [] v.t = "str" -> IF i < Len(v.s) THEN Str(<<v.s[i + 1]>>) ELSE Undefined
    [] OTHER -> Undefined

----------------------------------------------------------------------------
(* Dates *)

MsPerMinute == 60000

(* Days from 1970-01-01 to the civil date y-m-d (proleptic Gregorian). *)
DaysFromCivil(y, m, d) ==
  LET yy == IF m <= 2 THEN y - 1 ELSE y
      era == yy \div 400
      yoe == yy - era * 400
      mp == (m + 9) % 12
      doy == (153 * mp + 2) \div 5 + d - 1
      doe == yoe * 365 + yoe \div 4 - yoe \div 100 + doy
  IN era * 146097 + doe - 719468

(* new Date("YYYY-MM-DD HH:MM:SS.mmm"): the fields of the date-time, read in
   the host's time zone (taken to have a fixed offset). *)
DateFields(cs) ==
  LET parts == Split(cs, " ")
      ymd == Split(parts[1], "-")
      hms == Split(parts[2], ":")
      sec == Split(hms[3], ".")
  IN [year |-> ParseInt(ymd[1]).n, month |-> ParseInt(ymd[2]).n,
      day |-> ParseInt(ymd[3]).n, hours |-> ParseInt(hms[1]).n,
      minutes |-> ParseInt(hms[2]).n, seconds |-> ParseInt(sec[1]).n,
      ms |-> IF Len(sec) > 1 THEN ParseInt(sec[2]).n ELSE 0]

(* Date.prototype.getTime, in milliseconds.  The engine only subtracts two
   times, so the time is counted from 2023-01-01 00:00 instead of 1970, which
   keeps the milliseconds within 32-bit integers. *)
GetTime(cs) ==
  LET f == DateFields(cs)
      day == DaysFromCivil(f.year, f.month, f.day) - DaysFromCivil(2023, 1, 1)
  IN ((day * 24 + f.hours) * 60 + f.minutes) * MsPerMinute
       + f.seconds * 1000 + f.ms

(* Date.prototype.getDay: 0 is Sunday; 1970-01-01 was a Thursday. *)
GetDay(cs) ==
  LET f == DateFields(cs)
  IN (DaysFromCivil(f.year, f.month, f.day) + 4) % 7

days ==
  <<<<"S", "u", "n", "d", "a", "y">>,
    <<"M", "o", "n", "d", "a", "y">>,
    <<"T", "u", "e", "s", "d", "a", "y">>,
    <<"W", "e", "d", "n", "e", "s", "d", "a", "y">>,
    <<"T", "h", "u", "r", "s", "d", "a", "y">>,
    <<"F", "r", "i", "d", "a", "y">>,
    <<"S", "a", "t", "u", "r", "d", "a", "y">>>>

MathRoundHalfAway(p, q) ==
  IF p >= 0 THEN (2 * p + q) \div (2 * q) ELSE -((2 * (-p) + q) \div (2 * q))

(* Math.round(p / q) for q > 0: the nearest integer, a tie going up
   (towards +Infinity). *)
MathRound(p, q) == (2 * p + q) \div (2 * q)

----------------------------------------------------------------------------
(* processShardData, step 1: calculate derived fields *)

StringOf(obj, name) == Get(obj, name).s

(* parseInt(trip.started_at.split(' ')[1].split(':')[0]) *)
StartHour(trip) ==
  ParseInt(Split(Split(StringOf(trip, "started_at"), " ")[2], ":")[1])

(* Math.round((end.getTime() - start.getTime()) / 60000) *)
DurationMinutes(trip) ==
  MathRound(GetTime(StringOf(trip, "ended_at"))
              - GetTime(StringOf(trip, "started_at")), MsPerMinute)

(* days[date.getDay()] of the start timestamp *)
DayOfWeek(trip) == days[GetDay(StringOf(trip, "started_at")) + 1]

(* One entry of plan.calculate applied: the switch on calc.operation reads
   the trip and writes calculated[calc.name]; an operation that matches no
   case writes nothing. *)
ApplyCalc(trip, calculated, calc) ==
  CASE calc.operation = "duration_minutes" ->
         Put(calculated, calc.name, Num(DurationMinutes(trip)))
    [] calc.operation = "hour_of_day" ->
         Put(calculated, calc.name, StartHour(trip))
    [] calc.operation = "is_round_trip" ->
         Put(calculated, calc.name,
             Bool(StrictEquals(Get(trip, "start_station_id"),
                               Get(trip, "end_station_id"))))
    [] calc.operation = "day_of_week" ->
         Put(calculated, calc.name, Str(DayOfWeek(trip)))
    [] OTHER -> calculated

(* queryPlan.calculate.forEach over a copy of the trip *)
RECURSIVE CalcAll(_, _, _)
CalcAll(trip, calculated, calcs) ==
  IF calcs = <<>> THEN calculated
  ELSE CalcAll(trip, ApplyCalc(trip, calculated, Head(calcs)), Tail(calcs))

CalculateStage(rows, plan) ==
  IF IsSet(plan.calculate)
  THEN [i \in 1..Len(rows) |-> CalcAll(rows[i], rows[i], Val(plan.calculate))]
  ELSE rows

----------------------------------------------------------------------------
(* processShardData, step 2: filters *)

(* Reading filter.value[0] of an absent value raises a TypeError. *)
FilterThrows(trip, filter) ==
  filter.operation = "hour_between" /\ filter.value.t = "undef"

FilterPredicateHourField(trip, filter) ==
  LET value == Get(trip, filter.field)
  IN CASE filter.operation = "equals" -> StrictEquals(value, filter.value)
       [] filter.operation = "hour_between" ->
            /\ JsGreaterEq(value, ElementAt(filter.value, 0))
            /\ JsLess(value, ElementAt(filter.value, 1))
       [] filter.operation = "greater_than" -> JsGreater(value, filter.value)
       [] filter.operation = "less_than" -> JsLess(value, filter.value)
       [] filter.operation = "contains" ->
            Includes(ToLowerCase(JsString(value)),
                     ToLowerCase(JsString(filter.value)))
       [] filter.operation = "day_of_week" ->
            StrictEquals(Str(DayOfWeek(trip)), filter.value)
       [] OTHER -> TRUE

FilterPredicateFailClosed(trip, filter) ==
  LET value == Get(trip, filter.field)
  IN CASE filter.operation = "equals" -> StrictEquals(value, filter.value)
       [] filter.operation = "hour_between" ->
            /\ JsGreaterEq(StartHour(trip), ElementAt(filter.value, 0))
            /\ JsLess(StartHour(trip), ElementAt(filter.value, 1))
       [] filter.operation = "greater_than" -> JsGreater(value, filter.value)
       [] filter.operation = "less_than" -> JsLess(value, filter.value)
       [] filter.operation = "contains" ->
            Includes(ToLowerCase(JsString(value)),
                     ToLowerCase(JsString(filter.value)))
       [] filter.operation = "day_of_week" ->
            StrictEquals(Str(DayOfWeek(trip)), filter.value)
       [] OTHER -> FALSE

(* The switch on filter.operation. *)
FilterPredicate(trip, filter) ==
  LET value == Get(trip, filter.field)
  IN CASE filter.operation = "equals" -> StrictEquals(value, filter.value)
       [] filter.operation = "hour_between" ->
            /\ JsGreaterEq(StartHour(trip), ElementAt(filter.value, 0))
            /\ JsLess(StartHour(trip), ElementAt(filter.value, 1))
       [] filter.operation = "greater_than" -> JsGreater(value, filter.value)
       [] filter.operation = "less_than" -> JsLess(value, filter.value)
       [] filter.operation = "contains" ->
            Includes(ToLowerCase(JsString(value)),
                     ToLowerCase(JsString(filter.value)))
       [] filter.operation = "day_of_week" ->
            StrictEquals(Str(DayOfWeek(trip)), filter.value)
       [] OTHER -> TRUE

EveryAny(trip, filters) ==
  IF filters = <<>> \/ \E k \in 1..Len(filters) :
                         FilterPredicate(trip, filters[k])
  THEN "keep" ELSE "drop"

(* queryPlan.filters.every(...) on one trip, left to right, stopping at the
   first predicate that is false: "keep", "drop" or "throw". *)
RECURSIVE Every(_, _)
Every(trip, filters) ==
  IF filters = <<>> THEN "keep"
  ELSE IF FilterThrows(trip, Head(filters)) THEN "throw"
  ELSE IF ~FilterPredicate(trip, Head(filters)) THEN "drop"
  ELSE Every(trip, Tail(filters))

(* data.filter(...): the rows the callback keeps, in their order. *)
RECURSIVE FilterRows(_, _)
FilterRows(rows, filters) ==
  IF rows = <<>> THEN <<>>
  ELSE IF Every(Head(rows), filters) = "keep"
       THEN <<Head(rows)>> \o FilterRows(Tail(rows), filters)
       ELSE FilterRows(Tail(rows), filters)

FilterStageThrows(rows, plan) ==
  /\ IsSet(plan.filters)
  /\ \E i \in 1..Len(rows) : Every(rows[i], Val(plan.filters)) = "throw"

FilterStage(rows, plan) ==
  IF IsSet(plan.filters) THEN FilterRows(rows, Val(plan.filters)) ELSE rows

----------------------------------------------------------------------------
(* processShardData, step 3: group and aggregate *)

(* A property name that is an array index: the canonical decimal string of
   an integer from 0 to 2^32 - 2 (here: of at most 9 digits, which all are).
   An object lists such properties first, in ascending numeric order, and
   its other properties after them in the order of their creation. *)
IsArrayIndex(cs) ==
  /\ Len(cs) > 0
  /\ Len(cs) <= 9
  /\ \A i \in 1..Len(cs) : IsDigit(cs[i])
  /\ (cs[1] = "0" => Len(cs) = 1)

(* Where a new property named key is listed among the properties of
   `grouped` (a sequence of groups in the object's listing order). *)
RECURSIVE InsertAt(_, _, _)
InsertAt(groups, key, i) ==
  IF i > Len(groups) THEN i
  ELSE IF ~IsArrayIndex(key) THEN InsertAt(groups, key, i + 1)
  ELSE IF /\ IsArrayIndex(groups[i].key)
          /\ DigitsFrom(groups[i].key, 1, 0) < DigitsFrom(key, 1, 0)
       THEN InsertAt(groups, key, i + 1)
       ELSE i

InsertGroup(groups, g) ==
  LET i == InsertAt(groups, g.key, 1)
  IN SubSeq(groups, 1, i - 1) \o <<g>> \o SubSeq(groups, i, Len(groups))

AddToGroupCountOnce(groups, trip, groupBy) ==
  LET key == JsString(Get(trip, groupBy))
  IN IF \E i \in 1..Len(groups) : groups[i].key = key
     THEN [i \in 1..Len(groups) |->
             IF groups[i].key = key
             THEN [groups[i] EXCEPT !.items = Append(@, trip)]
             ELSE groups[i]]
     ELSE InsertGroup(groups, [key |-> key, count |-> 1, items |-> <<trip>>])

(* The body of data.forEach: the group of String(trip[groupBy]) is created
   when `grouped` has none, then counts the trip and keeps it. *)
AddToGroup(groups, trip, groupBy) ==
  LET key == JsString(Get(trip, groupBy))
  IN IF \E i \in 1..Len(groups) : groups[i].key = key
     THEN [i \in 1..Len(groups) |->
             IF groups[i].key = key
             THEN [groups[i] EXCEPT !.count = @ + 1,
                                    !.items = Append(@, trip)]
             ELSE groups[i]]
     ELSE InsertGroup(groups, [key |-> key, count |-> 1, items |-> <<trip>>])

RECURSIVE GroupRows(_, _, _)
GroupRows(rows, groupBy, groups) ==
  IF rows = <<>> THEN groups
  ELSE GroupRows(Tail(rows), groupBy, AddToGroup(groups, Head(rows), groupBy))

(* x + y on numbers *)
NumberAdd(x, y) ==
  CASE x.t = "nan" \/ y.t = "nan" -> NaN
    [] x.t = "num" /\ y.t = "num" -> Num(x.n + y.n)
    [] x.t = "num" -> y
    [] y.t = "num" -> x
    [] x.t = y.t -> x
    [] OTHER -> NaN

(* items.reduce((acc, item) => acc + (Number(item[field]) || 0), 0) *)
RECURSIVE SumItems(_, _, _)
SumItems(items, field, acc) ==
  IF items = <<>> THEN acc
  ELSE SumItems(Tail(items), field,
                NumberAdd(acc, NumberOr(Get(Head(items), field), Num(0))))

RoundedQuotientFloor(sum, count) ==
  IF sum.t = "num" THEN Num(sum.n \div count) ELSE sum

(* Math.round(sum / count), count > 0 *)
RoundedQuotient(sum, count) ==
  IF sum.t = "num" THEN Num(MathRound(sum.n, count)) ELSE sum

(* Math.min(...items.map(item => Number(item[field]) || Infinity)) *)
RECURSIVE MinItems(_, _, _)
MinItems(items, field, acc) ==
  IF items = <<>> THEN acc
  ELSE LET x == NumberOr(Get(Head(items), field), PosInfinity)
       IN MinItems(Tail(items), field, IF NumberLess(x, acc) THEN x ELSE acc)

(* Math.max(...items.map(item => Number(item[field]) || -Infinity)) *)
RECURSIVE MaxItems(_, _, _)
MaxItems(items, field, acc) ==
  IF items = <<>> THEN acc
  ELSE LET x == NumberOr(Get(Head(items), field), NegInfinity)
       IN MaxItems(Tail(items), field, IF NumberLess(acc, x) THEN x ELSE acc)

(* The row made of one group: the switch on aggregate.operation. *)
AggregateRow(group, plan) ==
  LET result == (Val(plan.groupBy) :> Str(group.key))
  IN IF ~IsSet(plan.aggregate) THEN result
     ELSE LET field == Val(plan.aggregate).field
              op == Val(plan.aggregate).operation
          IN CASE op = "count" -> Put(result, "count", Num(group.count))
               [] op = "sum" ->
                    Put(result, "sum", SumItems(group.items, field, Num(0)))
               [] op = "avg" ->
                    Put(result, "avg",
                        RoundedQuotient(SumItems(group.items, field, Num(0)),
                                        group.count))
               [] op = "min" ->
                    Put(result, "min",
                        MinItems(group.items, field, PosInfinity))
               [] op = "max" ->
                    Put(result, "max",
                        MaxItems(group.items, field, NegInfinity))
               [] OTHER -> result

(* `grouped` after the forEach, in the order Object.values lists it. *)
Grouped(rows, plan) == GroupRows(rows, Val(plan.groupBy), <<>>)

GroupStage(rows, plan) ==
  IF IsSet(plan.groupBy)
  THEN LET grouped == Grouped(rows, plan)
       IN [i \in 1..Len(grouped) |-> AggregateRow(grouped[i], plan)]
  ELSE rows

----------------------------------------------------------------------------
(* processShardData, steps 4 and 5: sort and limit *)

(* The sign of (aVal - bVal) * direction; NaN (Infinity - Infinity) is
   taken as 0 by the sort. *)
SortCompare(a, b, orderBy) ==
  LET aVal == NumberOr(Get(a, orderBy.field), Num(0))
      bVal == NumberOr(Get(b, orderBy.field), Num(0))
      direction == IF orderBy.direction = "asc" THEN 1 ELSE -1
      diff == IF NumberLess(aVal, bVal) THEN -1
              ELSE IF NumberLess(bVal, aVal) THEN 1
              ELSE 0
  IN diff * direction

RECURSIVE SortInsertUnstable(_, _, _)
SortInsertUnstable(sorted, row, orderBy) ==
  IF sorted = <<>> THEN <<row>>
  ELSE IF SortCompare(Head(sorted), row, orderBy) >= 0
       THEN <<row>> \o sorted
       ELSE <<Head(sorted)>> \o SortInsertUnstable(Tail(sorted), row, orderBy)

(* Array.prototype.sort is stable: a row goes before the first row that the
   comparator puts after it. *)
RECURSIVE SortInsert(_, _, _)
SortInsert(sorted, row, orderBy) ==
  IF sorted = <<>> THEN <<row>>
  ELSE IF SortCompare(Head(sorted), row, orderBy) > 0
       THEN <<row>> \o sorted
       ELSE <<Head(sorted)>> \o SortInsert(Tail(sorted), row, orderBy)

RECURSIVE SortRows(_, _, _)
SortRows(rows, orderBy, sorted) ==
  IF rows = <<>> THEN sorted
  ELSE SortRows(Tail(rows), orderBy, SortInsert(sorted, Head(rows), orderBy))

SortStage(rows, plan) ==
  IF IsSet(plan.orderBy) THEN SortRows(rows, Val(plan.orderBy), <<>>) ELSE rows

Min2(x, y) == IF x < y THEN x ELSE y
Max2(x, y) == IF x > y THEN x ELSE y

(* rows.slice(0, end) *)
Slice0(rows, end) ==
  LET k == IF end < 0 THEN Max2(Len(rows) + end, 0) ELSE Min2(end, Len(rows))
  IN SubSeq(rows, 1, k)

LimitStageDefaultZero(rows, plan) ==
  IF IsSet(plan.limit) THEN Slice0(rows, Val(plan.limit).n) ELSE <<>>

(* if (queryPlan.limit) data = data.slice(0, queryPlan.limit) *)
LimitStage(rows, plan) ==
  IF IsSet(plan.limit) /\ NumberTruthy(Val(plan.limit))
  THEN Slice0(rows, Val(plan.limit).n)
  ELSE rows

----------------------------------------------------------------------------
(* The inputs: trips and query plans *)

Pad2(k) == IF k < 10 THEN <<"0">> \o NatToString(k) ELSE NatToString(k)
Pad3(k) == IF k < 100 THEN <<"0">> \o Pad2(k) ELSE NatToString(k)

(* "2023-01-DD HH:MM:SS.mmm", the format of started_at and ended_at *)
Timestamp(d, h, mi, sec, ms) ==
  <<"2", "0", "2", "3", "-", "0", "1", "-">> \o Pad2(d) \o <<" ">>
    \o Pad2(h) \o <<":">> \o Pad2(mi) \o <<":">> \o Pad2(sec)
    \o <<".">> \o Pad3(ms)

(* A Trip (the coordinates, which no operation of the engine reads unless
   the plan names them, are left out: they are not integers). *)
Trip(id, bike, started, ended, sname, sid, ename, eid, rider) ==
  [ride_id |-> Str(<<"r", id>>),
   rideable_type |-> Str(bike),
   started_at |-> Str(started),
   ended_at |-> Str(ended),
   start_station_name |-> Str(sname),
   start_station_id |-> Str(sid),
   end_station_name |-> Str(ename),
   end_station_id |-> Str(eid),
   member_casual |-> Str(rider)]

Classic == <<"c", "l", "a", "s", "s", "i", "c", "_", "b", "i", "k", "e">>
Electric == <<"e", "l", "e", "c", "t", "r", "i", "c", "_", "b", "i", "k", "e">>
Member == <<"m", "e", "m", "b", "e", "r">>
Casual == <<"c", "a", "s", "u", "a", "l">>
StationA == <<"A", "v", "e", " ", "A">>
StationB == <<"B", "r", "o", "a", "d", "w", "a", "y">>

(* The trips the inputs are made of.  2023-01-01 was a Sunday. *)
TripPool ==
  <<Trip("1", Classic, Timestamp(3, 17, 30, 0, 0), Timestamp(3, 17, 14, 30, 0),
         StationB, <<"2">>, StationA, <<"1">>, Member),
    Trip("2", Electric, Timestamp(3, 12, 10, 0, 0), Timestamp(3, 12, 10, 0, 0),
         StationA, <<"1">>, StationA, <<"1">>, Casual),
    Trip("3", Classic, Timestamp(3, 11, 0, 0, 0), Timestamp(3, 11, 15, 30, 0),
         StationA, <<"1">>, StationB, <<"2">>, Member),
    Trip("4", Electric, Timestamp(3, 18, 0, 0, 0), Timestamp(3, 18, 20, 29, 999),
         StationB, <<"2">>, StationB, <<"2">>, Member),
    Trip("5", Classic, Timestamp(1, 23, 50, 0, 0), Timestamp(2, 0, 10, 0, 0),
         StationA, <<"1">>, StationB, <<"2">>, Casual)>>

MaxTrips == 3

(* The sequences of at most MaxTrips different trips of the pool. *)
TripLists ==
  UNION {{[i \in 1..k |-> TripPool[f[i]]] :
            f \in {g \in [1..k -> 1..Len(TripPool)] :
                     \A i, j \in 1..k : i # j => g[i] # g[j]}} :
         k \in 0..MaxTrips}

Plan(calculate, filters, groupBy, aggregate, orderBy, limit) ==
  [calculate |-> calculate, filters |-> filters, groupBy |-> groupBy,
   aggregate |-> aggregate, orderBy |-> orderBy, limit |-> limit]

CalcHour == [name |-> "hour", operation |-> "hour_of_day"]
CalcHourOther == [name |-> "h2", operation |-> "hour_of_day"]
CalcDuration == [name |-> "duration_minutes", operation |-> "duration_minutes"]
CalcRoundTrip == [name |-> "round_trip", operation |-> "is_round_trip"]
CalcDay == [name |-> "day", operation |-> "day_of_week"]

Filter(field, operation, value) ==
  [field |-> field, operation |-> operation, value |-> value]

(* The filters the plans are made of. *)
FilterPool ==
  <<Filter("hour", "hour_between", Arr(<<12, 18>>)),
    Filter("ride_id", "hour_between", Arr(<<0, 12>>)),
    Filter("start_station_name", "equals", Str(StationA)),
    Filter("duration_minutes", "greater_than", Num(10)),
    Filter("hour", "less_than", Num(17)),
    Filter("start_station_name", "contains", Str(<<"b", "R", "o">>)),
    Filter("started_at", "day_of_week", Str(days[1])),
    Filter("start_station_name", "starts_with", Str(<<"A">>))>>

MaxFilters == 2

(* The elements of the pool at the indices of ix, in the pool's order. *)
RECURSIVE Pick(_, _, _)
Pick(pool, ix, i) ==
  IF i > Len(pool) THEN <<>>
  ELSE IF i \in ix THEN <<pool[i]>> \o Pick(pool, ix, i + 1)
  ELSE Pick(pool, ix, i + 1)

FilterLists ==
  {Pick(FilterPool, ix, 1) :
     ix \in {x \in SUBSET (1..Len(FilterPool)) : Cardinality(x) <= MaxFilters}}

CalcLists ==
  {<<CalcHour>>, <<CalcHourOther, CalcDuration, CalcRoundTrip, CalcDay>>}

(* Plans that only calculate and filter. *)
FilterPlans ==
  {Plan(c, f, None, None, None, None) :
     c \in {None} \cup {Some(x) : x \in CalcLists},
     f \in {None} \cup {Some(x) : x \in FilterLists}}

----------------------------------------------------------------------------
(* The pipeline as a state machine: pc names the step to run next; `entered`
   keeps the rows that entered the step that ran last. *)

(* processIndexData is not running. *)
HandlerIdle ==
  /\ request = "none"
  /\ apiKey = FALSE
  /\ reply = <<>>
  /\ hpc = "idle"
  /\ fetchState = <<>>
  /\ shardDataArrays = <<>>
  /\ promiseAll = "none"
  /\ responses = <<>>
  /\ invocations = <<>>
  /\ fetchLog = <<>>
  /\ arrivals = <<>>

IndexIdle ==
  /\ indexData = <<>>
  /\ indexPlan = <<>>
  /\ dates = <<>>
  /\ groupedDays = <<>>
  /\ indexResult = <<>>
  /\ ipc = "idle"

(* let data = [...trips] *)
InitFrom(lists, plans) ==
  /\ trips \in lists
  /\ queryPlan \in plans
  /\ data = trips
  /\ entered = <<>>
  /\ pc = "calculate"
  /\ IndexIdle
  /\ HandlerIdle

InitWith(plans) == InitFrom(TripLists, plans)

SpreadShares == FALSE

(* [...trips] is a new array: `data` is never the caller's array. *)
SpreadCopies == TRUE

(* `data` is still the array made at entry: map, filter and the grouping
   each replace it by a new array. *)
DataIsFirstArray(plan) ==
  ~IsSet(plan.calculate) /\ ~IsSet(plan.filters) /\ ~IsSet(plan.groupBy)

InputAfterCalculateInPlace(input, plan) == CalculateStage(input, plan)

(* The caller's records after step 1: `calculated` is a copy ({...trip}) and
   the derived fields are written to the copy. *)
InputAfterCalculate(input, plan) == input

(* The caller's array after step 4: data.sort sorts `data` in place, which
   reorders the caller's array only if `data` is that array. *)
InputAfterSort(input, plan) ==
  IF ~SpreadCopies /\ DataIsFirstArray(plan) THEN SortStage(input, plan)
  ELSE input

Calculate ==
  /\ pc = "calculate"
  /\ data' = CalculateStage(data, queryPlan)
  /\ entered' = data
  /\ pc' = "filter"
  /\ trips' = InputAfterCalculate(trips, queryPlan)
  /\ UNCHANGED <<queryPlan, indexVars, handlerVars>>

FilterStep ==
  /\ pc = "filter"
  /\ IF FilterStageThrows(data, queryPlan)
     THEN pc' = "threw" /\ UNCHANGED data
     ELSE pc' = "group" /\ data' = FilterStage(data, queryPlan)
  /\ entered' = data
  /\ UNCHANGED <<trips, queryPlan, indexVars, handlerVars>>

GroupStep ==
  /\ pc = "group"
  /\ data' = GroupStage(data, queryPlan)
  /\ entered' = data
  /\ pc' = "sort"
  /\ UNCHANGED <<trips, queryPlan, indexVars, handlerVars>>

SortStep ==
  /\ pc = "sort"
  /\ data' = SortStage(data, queryPlan)
  /\ entered' = data
  /\ pc' = "limit"
  /\ trips' = InputAfterSort(trips, queryPlan)
  /\ UNCHANGED <<queryPlan, indexVars, handlerVars>>

LimitStep ==
  /\ pc = "limit"
  /\ data' = LimitStage(data, queryPlan)
  /\ entered' = data
  /\ pc' = "done"
  /\ UNCHANGED <<trips, queryPlan, indexVars, handlerVars>>

Next == Calculate \/ FilterStep \/ GroupStep \/ SortStep \/ LimitStep

SpecFilter == InitWith(FilterPlans) /\ [][Next]_vars

(* Plans that group: the derived fields are calculated first, the records
   are filtered or not, and the groups are aggregated or not. *)
GroupCalc == <<CalcHour, CalcDuration, CalcRoundTrip>>

GroupByFields ==
  {"start_station_name", "hour", "duration_minutes", "round_trip",
   "nonexistent"}

Aggregate(operation, field) == [operation |-> operation, field |-> field]

Aggregates ==
  {Aggregate("count", "*"), Aggregate("sum", "start_station_id"),
   Aggregate("sum", "start_station_name"), Aggregate("avg", "hour"),
   Aggregate("min", "nonexistent")}
    \cup {Aggregate(op, "duration_minutes") :
            op \in {"sum", "avg", "min", "max"}}

GroupPlans ==
  {Plan(Some(GroupCalc), f, Some(g), a, None, None) :
     f \in {None, Some(<<FilterPool[1]>>)},
     g \in GroupByFields,
     a \in {None} \cup {Some(x) : x \in Aggregates}}

SpecGroup == InitWith(GroupPlans) /\ [][Next]_vars

(* Plans that sort and limit, the rows being the records or group rows. *)
OrderBy(field, direction) == [field |-> field, direction |-> direction]

Groupings ==
  {<<None, None>>,
   <<Some("start_station_name"), Some(Aggregate("count", "*"))>>,
   <<Some("hour"), Some(Aggregate("min", "duration_minutes"))>>}

OrderPlans ==
  {Plan(Some(GroupCalc), None, g[1], g[2], o, l) :
     g \in Groupings,
     o \in {None} \cup
             {Some(OrderBy(f, d)) :
                f \in {"duration_minutes", "count", "min", "start_station_name"},
                d \in {"asc", "desc"}},
     l \in {None, Some(Num(0)), Some(Num(1)), Some(Num(2))}}
    \cup {Plan(None, None, None, None, Some(OrderBy("start_station_id", d)), l) :
            d \in {"asc", "desc"}, l \in {None, Some(Num(2))}}

SpecOrder == InitWith(OrderPlans) /\ [][Next]_vars

(* Plans with malformed content: values that are absent or of another shape
   than the operation reads, and operation names the engine does not know. *)
MalformedFilters ==
  <<Filter("hour", "hour_between", Undefined),
    Filter("hour", "hour_between", Num(12)),
    Filter("hour", "hour_between", Arr(<<12>>)),
    Filter("start_station_name", "equals", Undefined),
    Filter("hour", "between", Arr(<<12, 18>>))>>

MalformedFilterLists ==
  {<<MalformedFilters[i]>> : i \in 1..Len(MalformedFilters)}
    \cup {<<MalformedFilters[i], MalformedFilters[j]>> :
            i, j \in 1..Len(MalformedFilters)}

MalformedPlans ==
  {Plan(Some(<<[name |-> "speed", operation |-> "speed"]>>), Some(f),
        g[1], g[2], Some(OrderBy("count", "sideways")), None) :
     f \in MalformedFilterLists,
     g \in {<<None, None>>,
            <<Some("start_station_name"), Some(Aggregate("median", "hour"))>>}}

SpecMalformed == InitWith(MalformedPlans) /\ [][Next]_vars

(* Records of which one lacks end_station_name and one holds the string
   "undefined" in it. *)
WithEndStation(trip, name) == [trip EXCEPT !.end_station_name = Str(name)]

WithoutEndStation(trip) ==
  [f \in DOMAIN trip \ {"end_station_name"} |-> trip[f]]

MissingPool ==
  <<WithoutEndStation(TripPool[1]), WithEndStation(TripPool[2], Chars_undefined),
    TripPool[3], WithoutEndStation(TripPool[4])>>

MissingLists ==
  UNION {{[i \in 1..k |-> MissingPool[f[i]]] :
            f \in {g \in [1..k -> 1..Len(MissingPool)] :
                     \A i, j \in 1..k : i # j => g[i] # g[j]}} :
         k \in 0..MaxTrips}

MissingPlans ==
  {Plan(None, None, Some("end_station_name"), a, None, None) :
     a \in {None, Some(Aggregate("count", "*")),
            Some(Aggregate("sum", "end_station_id"))}}

SpecMissing == InitFrom(MissingLists, MissingPlans) /\ [][Next]_vars

----------------------------------------------------------------------------
(* Properties of the filter step *)

OnlyFilters(plan) ==
  /\ IsSet(plan.filters)
  /\ ~IsSet(plan.groupBy) /\ ~IsSet(plan.orderBy) /\ ~IsSet(plan.limit)

(* The row satisfies every predicate of the list. *)
Satisfies(row, filters) ==
  \A k \in 1..Len(filters) : FilterPredicate(row, filters[k])

KeptIndices(rows, filters) ==
  {j \in 1..Len(rows) : Satisfies(rows[j], filters)}

(* The i-th smallest element of a set of numbers. *)
NthOf(K, i) == CHOOSE j \in K : Cardinality({k \in K : k <= j}) = i

(* out is rows restricted to the indices K, in the order of rows. *)
IsRestriction(out, rows, K) ==
  /\ Len(out) = Cardinality(K)
  /\ \A i \in 1..Len(out) : out[i] = rows[NthOf(K, i)]

(* C1: with filters and no groupBy, orderBy or limit, the output is the
   records (as calculated) that satisfy every predicate of the list, in
   their input order; the empty list removes nothing. *)
C1_FilterAndComposition ==
  (pc = "done" /\ OnlyFilters(queryPlan)) =>
    LET rows == CalculateStage(trips, queryPlan)
    IN IsRestriction(data, rows, KeptIndices(rows, Val(queryPlan.filters)))

(* Two filters, a record that passes the first and fails the second is
   dropped while two others are kept in their order. *)
C1_Witness ==
  /\ pc = "done" /\ OnlyFilters(queryPlan)
  /\ Len(Val(queryPlan.filters)) = 2
  /\ Len(trips) = 3 /\ Len(data) = 2
  /\ \E j \in 1..Len(trips) :
       /\ FilterPredicate(CalculateStage(trips, queryPlan)[j],
                          Val(queryPlan.filters)[1])
       /\ ~FilterPredicate(CalculateStage(trips, queryPlan)[j],
                           Val(queryPlan.filters)[2])

(* The hour of the clock time of a timestamp. *)
ClockHour(cs) == (GetTime(cs) % 86400000) \div 3600000

OnlyHourBetween(plan) ==
  /\ IsSet(plan.filters)
  /\ Val(plan.filters) # <<>>
  /\ \A k \in 1..Len(Val(plan.filters)) :
       /\ Val(plan.filters)[k].operation = "hour_between"
       /\ Val(plan.filters)[k].value.t = "arr"
       /\ Len(Val(plan.filters)[k].value.a) = 2

InHours(trip, filter) ==
  /\ filter.value.a[1] <= ClockHour(trip.started_at.s)
  /\ ClockHour(trip.started_at.s) < filter.value.a[2]

RideIds(rows) == {rows[i]["ride_id"] : i \in 1..Len(rows)}

(* C2: a hour_between filter keeps a record iff value[0] <= h < value[1], h
   being the hour of the record's started_at, whatever the filter's field
   name and whether or not (and under what name) hour_of_day was
   calculated. *)
C2_HourBetween ==
  (pc = "group" /\ OnlyHourBetween(queryPlan)) =>
    RideIds(data) =
      {trips[j]["ride_id"] :
         j \in {i \in 1..Len(trips) :
                  \A k \in 1..Len(Val(queryPlan.filters)) :
                    InHours(trips[i], Val(queryPlan.filters)[k])}}

(* [12, 18) without a calculate step: hour 12 is kept, hour 18 is not. *)
C2_Witness ==
  /\ pc = "group" /\ OnlyHourBetween(queryPlan)
  /\ ~IsSet(queryPlan.calculate)
  /\ Val(queryPlan.filters) = <<FilterPool[1]>>
  /\ \E i, j \in 1..Len(trips) :
       /\ ClockHour(trips[i].started_at.s) = 12
       /\ ClockHour(trips[j].started_at.s) = 18
       /\ trips[i]["ride_id"] \in RideIds(data)
       /\ trips[j]["ride_id"] \notin RideIds(data)

----------------------------------------------------------------------------
(* Properties of the group step *)

Grouping == pc = "sort" /\ IsSet(queryPlan.groupBy)

AggregateIs(ops) ==
  /\ IsSet(queryPlan.aggregate)
  /\ Val(queryPlan.aggregate).operation \in ops

(* The group key of a surviving record. *)
KeyOf(row) == JsString(Get(row, Val(queryPlan.groupBy)))

GroupKeys == {KeyOf(entered[j]) : j \in 1..Len(entered)}

(* The surviving records with the key. *)
Members(key) == {j \in 1..Len(entered) : KeyOf(entered[j]) = key}

(* The key an output row is for. *)
RowKey(row) == row[Val(queryPlan.groupBy)].s

RECURSIVE SumSeq(_)
SumSeq(xs) == IF xs = <<>> THEN 0 ELSE Head(xs) + SumSeq(Tail(xs))

(* C3: grouping with aggregate count yields exactly one row per distinct
   stringified value of the groupBy field among the surviving records, with
   the number of the records with that value as its count; the counts sum to
   the number of surviving records. *)
C3_GroupCount ==
  (Grouping /\ AggregateIs({"count"})) =>
    /\ Len(data) = Cardinality(GroupKeys)
    /\ \A key \in GroupKeys :
         \E i \in 1..Len(data) :
           /\ Get(data[i], Val(queryPlan.groupBy)) = Str(key)
           /\ Get(data[i], "count") = Num(Cardinality(Members(key)))
    /\ SumSeq([i \in 1..Len(data) |-> Get(data[i], "count").n]) = Len(entered)

(* Three surviving records in two groups, of 2 and of 1. *)
C3_Witness ==
  /\ Grouping /\ AggregateIs({"count"})
  /\ Len(entered) = 3 /\ Len(data) = 2
  /\ \E i \in 1..Len(data) : Get(data[i], "count") = Num(2)

(* The first surviving record with the key. *)
FirstOccurrence(key) == CHOOSE j \in Members(key) : \A k \in Members(key) : j <= k

(* C4: without orderBy, the group rows are in the order in which their keys
   first occur among the surviving records, for every kind of key. *)
C4_FirstOccurrenceOrder ==
  (Grouping /\ ~IsSet(queryPlan.orderBy)) =>
    \A i, j \in 1..Len(data) :
      i < j => FirstOccurrence(RowKey(data[i])) < FirstOccurrence(RowKey(data[j]))

(* C5: with groupBy and no aggregate, every group row carries the number of
   the group's members as `count`. *)
C5_CountWithoutAggregate ==
  (Grouping /\ ~IsSet(queryPlan.aggregate)) =>
    \A i \in 1..Len(data) :
      /\ "count" \in DOMAIN data[i]
      /\ data[i]["count"] = Num(Cardinality(Members(RowKey(data[i]))))

(* What a member's field contributes to min (resp. max): its number, and
   +Infinity (resp. -Infinity) only when the member lacks the field. *)
Contribution(v, sentinel) == IF v.t = "undef" THEN sentinel ELSE ToNumber(v)

(* x is the least (resp. greatest) contribution of the members. *)
IsMinOf(x, S, field) ==
  /\ \E j \in S : x = Contribution(Get(entered[j], field), PosInfinity)
  /\ \A j \in S :
       ~NumberLess(Contribution(Get(entered[j], field), PosInfinity), x)

IsMaxOf(x, S, field) ==
  /\ \E j \in S : x = Contribution(Get(entered[j], field), NegInfinity)
  /\ \A j \in S :
       ~NumberLess(x, Contribution(Get(entered[j], field), NegInfinity))

(* The aggregate field holds a number or is missing on every record. *)
NumericOrMissing(field) ==
  \A j \in 1..Len(entered) : Get(entered[j], field).t \in {"num", "undef"}

(* C6: with aggregate min (resp. max), each group's result is the minimum
   (resp. maximum) of the members' numbers, 0 and negative numbers included;
   only a missing field contributes an infinity. *)
C6_MinMax ==
  (/\ Grouping /\ AggregateIs({"min", "max"})
   /\ NumericOrMissing(Val(queryPlan.aggregate).field)) =>
    \A i \in 1..Len(data) :
      LET field == Val(queryPlan.aggregate).field
          S == Members(RowKey(data[i]))
      IN IF Val(queryPlan.aggregate).operation = "min"
         THEN IsMinOf(Get(data[i], "min"), S, field)
         ELSE IsMaxOf(Get(data[i], "max"), S, field)

(* The numeric value of a field, a missing or non-numeric one counting as 0
   (a boolean counts as 0 or 1, a string of digits as the number it
   spells). *)
ValueOrZero(v) ==
  CASE v.t = "num" -> v.n
    [] v.t = "bool" -> v.n
    [] v.t = "str" /\ v.s # <<>> /\ (\A i \in 1..Len(v.s) : IsDigit(v.s[i])) ->
         DigitsFrom(v.s, 1, 0)
    [] OTHER -> 0

MemberSum(key, field) ==
  SumSeq([j \in 1..Len(entered) |->
            IF j \in Members(key) THEN ValueOrZero(Get(entered[j], field))
            ELSE 0])

Abs(x) == IF x < 0 THEN -x ELSE x

(* C7: `sum` is the sum of the members' numeric values, a missing or
   non-numeric value counting as 0; `avg` is that sum divided by the number
   of members (never 0), rounded to the nearest integer. *)
C7_SumAvg ==
  (Grouping /\ AggregateIs({"sum", "avg"})) =>
    \A i \in 1..Len(data) :
      LET field == Val(queryPlan.aggregate).field
          key == RowKey(data[i])
          count == Cardinality(Members(key))
      IN /\ count > 0
         /\ Val(queryPlan.aggregate).operation = "sum" =>
              Get(data[i], "sum") = Num(MemberSum(key, field))
         /\ Val(queryPlan.aggregate).operation = "avg" =>
              /\ Get(data[i], "avg").t = "num"
              /\ 2 * Abs(Get(data[i], "avg").n * count - MemberSum(key, field))
                   <= count

(* An average that is no integer before rounding: the durations 0 and 16
   and 20 of one group give 12. *)
C7_Witness ==
  /\ Grouping /\ AggregateIs({"avg"})
  /\ Val(queryPlan.aggregate).field = "duration_minutes"
  /\ \E i \in 1..Len(data) :
       /\ Cardinality(Members(RowKey(data[i]))) = 3
       /\ MemberSum(RowKey(data[i]), "duration_minutes") = 36
       /\ Get(data[i], "avg") = Num(12)

----------------------------------------------------------------------------
(* Properties of the sort and limit steps *)

(* The number a row is sorted by: the numeric coercion of the field, a
   missing or non-numeric value counting as 0. *)
SortKey(row) ==
  LET x == ToNumber(Get(row, Val(queryPlan.orderBy).field))
  IN IF x.t = "nan" THEN Num(0) ELSE x

Rearrangements(n) ==
  {p \in [1..n -> 1..n] : \A i, j \in 1..n : i # j => p[i] # p[j]}

(* C8: the sorted rows are a permutation of the rows that entered the sort,
   non-decreasing (asc) or non-increasing (desc) in their keys, rows of
   equal keys keeping their order. *)
C8_StableSort ==
  (pc = "limit" /\ IsSet(queryPlan.orderBy)) =>
    \E p \in Rearrangements(Len(entered)) :
      /\ Len(data) = Len(entered)
      /\ \A i \in 1..Len(data) : data[i] = entered[p[i]]
      /\ \A i, j \in 1..Len(data) :
           i < j =>
             /\ IF Val(queryPlan.orderBy).direction = "asc"
                THEN ~NumberLess(SortKey(data[j]), SortKey(data[i]))
                ELSE ~NumberLess(SortKey(data[i]), SortKey(data[j]))
             /\ SortKey(data[i]) = SortKey(data[j]) => p[i] < p[j]

(* Three records sorted by descending duration: the first one moves last
   and the two of equal duration keep their order. *)
C8_Witness ==
  /\ pc = "limit" /\ IsSet(queryPlan.orderBy)
  /\ Val(queryPlan.orderBy) = OrderBy("duration_minutes", "desc")
  /\ Len(data) = 3
  /\ data[3] = entered[1]
  /\ SortKey(data[1]) = SortKey(data[2])
  /\ data[1] = entered[2] /\ data[2] = entered[3]

(* C9: with limit set to N >= 0 (0 included), the output is the first N of
   the sorted rows, all of them when they are fewer. *)
C9_Limit ==
  (/\ pc = "done" /\ IsSet(queryPlan.limit)
   /\ Val(queryPlan.limit).t = "num" /\ Val(queryPlan.limit).n >= 0) =>
    data = SubSeq(entered, 1, Min2(Val(queryPlan.limit).n, Len(entered)))

----------------------------------------------------------------------------
(* Properties of the calculate step *)

Calculated(operation) ==
  /\ pc = "filter" /\ IsSet(queryPlan.calculate)
  /\ \E k \in 1..Len(Val(queryPlan.calculate)) :
       Val(queryPlan.calculate)[k].operation = operation

(* The name the last entry of the operation writes. *)
CalcName(operation) ==
  LET calcs == Val(queryPlan.calculate)
      k == CHOOSE i \in 1..Len(calcs) :
             /\ calcs[i].operation = operation
             /\ \A j \in 1..Len(calcs) : calcs[j].operation = operation => j <= i
  IN calcs[k].name

(* ended_at - started_at of a record, in milliseconds *)
ElapsedMs(trip) == GetTime(trip.ended_at.s) - GetTime(trip.started_at.s)

DurationOf(i) == Get(data[i], CalcName("duration_minutes")).n

(* C10 as stated: the duration is the elapsed minutes rounded to the nearest
   integer, a tie going away from zero, negative durations included. *)
C10_RoundHalfAwayFromZero ==
  Calculated("duration_minutes") =>
    \A i \in 1..Len(data) :
      IF ElapsedMs(trips[i]) >= 0
      THEN /\ 2 * MsPerMinute * DurationOf(i) - MsPerMinute <= 2 * ElapsedMs(trips[i])
           /\ 2 * ElapsedMs(trips[i]) < 2 * MsPerMinute * DurationOf(i) + MsPerMinute
      ELSE /\ 2 * MsPerMinute * DurationOf(i) - MsPerMinute < 2 * ElapsedMs(trips[i])
           /\ 2 * ElapsedMs(trips[i]) <= 2 * MsPerMinute * DurationOf(i) + MsPerMinute

(* C10 as amended: the duration is the elapsed minutes rounded to the
   nearest integer, a tie going up (towards +Infinity): away from zero for a
   duration >= 0, towards zero for a negative one. *)
C10_RoundHalfUp ==
  Calculated("duration_minutes") =>
    \A i \in 1..Len(data) :
      /\ Get(data[i], CalcName("duration_minutes")).t = "num"
      /\ 2 * MsPerMinute * DurationOf(i) - MsPerMinute <= 2 * ElapsedMs(trips[i])
      /\ 2 * ElapsedMs(trips[i]) < 2 * MsPerMinute * DurationOf(i) + MsPerMinute

(* 15 min 30 s gives 16, and 15 min 30 s backwards gives -15. *)
C10_Witness ==
  /\ Calculated("duration_minutes")
  /\ \E i, j \in 1..Len(data) :
       /\ ElapsedMs(trips[i]) = 930000 /\ DurationOf(i) = 16
       /\ ElapsedMs(trips[j]) = -930000 /\ DurationOf(j) = -15

----------------------------------------------------------------------------
(* Properties of the whole pipeline *)

EmptyPlan(plan) ==
  /\ ~IsSet(plan.calculate) /\ ~IsSet(plan.filters) /\ ~IsSet(plan.groupBy)
  /\ ~IsSet(plan.aggregate) /\ ~IsSet(plan.orderBy) /\ ~IsSet(plan.limit)

(* C11: with a plan that has no calculate, filters, groupBy, aggregate,
   orderBy or limit, the result is the input: the same records with the same
   fields in the same order. *)
C11_EmptyPlanIdentity ==
  (pc = "done" /\ EmptyPlan(queryPlan)) => data = trips

C11_Witness ==
  /\ pc = "done" /\ EmptyPlan(queryPlan)
  /\ Len(trips) = 3 /\ data = trips

KnownOperations ==
  {"equals", "hour_between", "greater_than", "less_than", "contains",
   "day_of_week"}

(* The row satisfies every predicate of the list whose operation is known. *)
SatisfiesKnown(row, filters) ==
  \A k \in 1..Len(filters) :
    filters[k].operation \in KnownOperations => FilterPredicate(row, filters[k])

HasUnknownOperation(plan) ==
  /\ IsSet(plan.filters)
  /\ \E k \in 1..Len(Val(plan.filters)) :
       Val(plan.filters)[k].operation \notin KnownOperations

(* C12: a filter of an unknown operation is true for every record: the
   records that survive are those the other filters of the list keep. *)
C12_UnknownOperationFailOpen ==
  (pc = "done" /\ OnlyFilters(queryPlan) /\ HasUnknownOperation(queryPlan)) =>
    LET rows == CalculateStage(trips, queryPlan)
    IN IsRestriction(data, rows,
                     {j \in 1..Len(rows) :
                        SatisfiesKnown(rows[j], Val(queryPlan.filters))})

(* Next to an unknown operation, another filter drops one record of three;
   and an unknown operation alone keeps three records. *)
C12_Witness ==
  /\ pc = "done" /\ OnlyFilters(queryPlan) /\ HasUnknownOperation(queryPlan)
  /\ Len(Val(queryPlan.filters)) = 2
  /\ Len(trips) = 3 /\ Len(data) = 2

(* C13: whatever the content of the plan, processShardData returns rows and
   raises no exception. *)
C13_NeverThrows == pc # "threw"

C15_MissingFieldGroup ==
  Grouping =>
    /\ \A j \in 1..Len(entered) :
         Val(queryPlan.groupBy) \notin DOMAIN entered[j] =>
           KeyOf(entered[j]) = Chars_undefined
    /\ \A j \in Members(Chars_undefined) :
         Val(queryPlan.groupBy) \notin DOMAIN entered[j]

----------------------------------------------------------------------------
(* processIndexData (indexProcessor): dates and aggregation keys *)

(* Array.prototype.sort() without a comparator, on strings: ascending by
   code units. *)
RECURSIVE InsertString(_, _)
InsertString(sorted, cs) ==
  IF sorted = <<>> THEN <<cs>>
  ELSE IF StringLess(cs, Head(sorted), 1) THEN <<cs>> \o sorted
  ELSE <<Head(sorted)>> \o InsertString(Tail(sorted), cs)

RECURSIVE SortStrings(_, _)
SortStrings(S, sorted) ==
  IF S = {} THEN sorted
  ELSE LET cs == CHOOSE x \in S : TRUE
       IN SortStrings(S \ {cs}, InsertString(sorted, cs))

(* a <= b on strings *)
StringLessEq(x, y) == ~StringLess(y, x, 1)

DateInRangeOpenEnd(date, range) ==
  StringLessEq(range.start, date) /\ StringLess(date, range.end, 1)

(* date >= plan.dateRange.start && date <= plan.dateRange.end *)
DateInRange(date, range) ==
  StringLessEq(range.start, date) /\ StringLessEq(date, range.end)

RECURSIVE FilterDates(_, _)
FilterDates(ds, range) ==
  IF ds = <<>> THEN <<>>
  ELSE IF DateInRange(Head(ds), range)
       THEN <<Head(ds)>> \o FilterDates(Tail(ds), range)
       ELSE FilterDates(Tail(ds), range)

DateStageUnfiltered(index, plan) == SortStrings(DOMAIN index, <<>>)

(* Step 1: Object.keys(indexData).sort(), filtered by plan.dateRange. *)
DateStage(index, plan) ==
  LET sorted == SortStrings(DOMAIN index, <<>>)
  IN IF IsSet(plan.dateRange) THEN FilterDates(sorted, Val(plan.dateRange))
     ELSE sorted

(* The year that holds day number n, a year next to `near`. *)
YearOfDay(n, near) ==
  CHOOSE y \in (near - 1)..(near + 1) :
    DaysFromCivil(y, 1, 1) <= n /\ n < DaysFromCivil(y + 1, 1, 1)

(* getWeekNumber: the date is moved to the Thursday of its week (Sunday is
   day 7) and the weeks are counted from January 1 of the Thursday's year.
   The host's zone is taken not to lie west of UTC, so that the local date of
   new Date("YYYY-MM-DD") is that date. *)
GetWeekNumber(year, month, day) ==
  LET d0 == DaysFromCivil(year, month, day)
      utcDay == (d0 + 4) % 7
      dayNum == IF utcDay = 0 THEN 7 ELSE utcDay
      d == d0 + 4 - dayNum
      yearStart == DaysFromCivil(YearOfDay(d, year), 1, 1)
  IN (d - yearStart + 1 + 6) \div 7

(* String(weekNum).padStart(2, '0') *)
PadStart2(k) ==
  LET cs == NatToString(k) IN IF Len(cs) < 2 THEN <<"0">> \o cs ELSE cs

(* getAggregationKey: the switch on period. *)
GetAggregationKey(date, period) ==
  LET parts == Split(date, "-")
      year == parts[1]
      month == parts[2]
  IN CASE period = "day" -> date
       [] period = "week" ->
            year \o <<"-", "W">>
              \o PadStart2(GetWeekNumber(ParseInt(parts[1]).n,
                                         ParseInt(parts[2]).n,
                                         ParseInt(parts[3]).n))
       [] period = "month" -> year \o <<"-">> \o month
       [] period = "quarter" ->
            year \o <<"-", "Q">> \o NatToString((ParseInt(month).n + 2) \div 3)
       [] period = "year" -> year
       [] OTHER -> date

(* plan.aggregateBy || 'day' *)
PeriodOf(plan) == IF IsSet(plan.aggregateBy) THEN Val(plan.aggregateBy) ELSE "day"

AddDayFront(groups, date, index, plan) ==
  LET key == GetAggregationKey(date, PeriodOf(plan))
  IN IF \E i \in 1..Len(groups) : groups[i].key = key
     THEN [i \in 1..Len(groups) |->
             IF groups[i].key = key
             THEN [groups[i] EXCEPT !.days = Append(@, index[date]),
                                    !.dates = Append(@, date)]
             ELSE groups[i]]
     ELSE <<[key |-> key, days |-> <<index[date]>>, dates |-> <<date>>]>>
            \o groups

(* The body of dates.forEach: grouped[key] is created when absent and the
   day's summary is pushed to it.  A group is listed where the object lists
   its key; `dates` keeps, next to the summaries, the dates they came
   from. *)
AddDay(groups, date, index, plan) ==
  LET key == GetAggregationKey(date, PeriodOf(plan))
  IN IF \E i \in 1..Len(groups) : groups[i].key = key
     THEN [i \in 1..Len(groups) |->
             IF groups[i].key = key
             THEN [groups[i] EXCEPT !.days = Append(@, index[date]),
                                    !.dates = Append(@, date)]
             ELSE groups[i]]
     ELSE InsertGroup(groups,
                      [key |-> key, days |-> <<index[date]>>, dates |-> <<date>>])

RECURSIVE BucketDates(_, _, _, _)
BucketDates(ds, index, plan, groups) ==
  IF ds = <<>> THEN groups
  ELSE BucketDates(Tail(ds), index, plan, AddDay(groups, Head(ds), index, plan))

(* Step 2 *)
BucketStage(ds, index, plan) == BucketDates(ds, index, plan, <<>>)

----------------------------------------------------------------------------
(* processIndexData: transformGroup *)

RECURSIVE SumNumbers(_)
SumNumbers(xs) ==
  IF xs = <<>> THEN 0 ELSE SumNumbers(SubSeq(xs, 1, Len(xs) - 1)) + xs[Len(xs)]

SumFieldButFirst(ds, f) == SumNumbers(Tail([i \in 1..Len(ds) |-> ds[i][f]]))

(* days.reduce((sum, day) => sum + day[f], 0) *)
SumField(ds, f) == SumNumbers([i \in 1..Len(ds) |-> ds[i][f]])

(* days.reduce((sum, day) => sum + day.bike_types[f], 0) *)
SumBikeType(ds, f) == SumNumbers([i \in 1..Len(ds) |-> ds[i].bike_types[f]])

HoursPerDay == 24

AddHistogramReplace(acc, hist) ==
  [h \in 1..Len(acc) |-> IF h <= Len(hist) THEN hist[h] ELSE acc[h]]

(* day.hourly_distribution.forEach((count, hour) => result[hour] += count);
   the histograms of the inputs have at most 24 entries. *)
AddHistogram(acc, hist) ==
  [h \in 1..Len(acc) |-> IF h <= Len(hist) THEN acc[h] + hist[h] ELSE acc[h]]

RECURSIVE MergeHistograms(_, _)
MergeHistograms(ds, acc) ==
  IF ds = <<>> THEN acc
  ELSE MergeHistograms(Tail(ds), AddHistogram(acc, Head(ds).hourly_distribution))

MaxOf(xs) == CHOOSE m \in {xs[i] : i \in 1..Len(xs)} : \A i \in 1..Len(xs) : xs[i] <= m
MinOf(xs) == CHOOSE m \in {xs[i] : i \in 1..Len(xs)} : \A i \in 1..Len(xs) : m <= xs[i]

LastIndexOfMax(hist) ==
  (CHOOSE h \in 1..Len(hist) :
     hist[h] = MaxOf(hist) /\ \A k \in (h + 1)..Len(hist) : hist[k] # MaxOf(hist)) - 1

(* hist.indexOf(Math.max(...hist)), counted from 0 *)
IndexOfMax(hist) ==
  (CHOOSE h \in 1..Len(hist) :
     hist[h] = MaxOf(hist) /\ \A k \in 1..(h - 1) : hist[k] # MaxOf(hist)) - 1

AddCountOverwrite(counts, name, count) ==
  IF \E i \in 1..Len(counts) : counts[i].name = name
  THEN [i \in 1..Len(counts) |->
          IF counts[i].name = name
          THEN [counts[i] EXCEPT !.count = count]
          ELSE counts[i]]
  ELSE Append(counts, [name |-> name, count |-> count])

(* counts[name] = (counts[name] || 0) + count; the names are no array
   indices, so that a new name is listed last. *)
AddCount(counts, name, count) ==
  IF \E i \in 1..Len(counts) : counts[i].name = name
  THEN [i \in 1..Len(counts) |->
          IF counts[i].name = name
          THEN [counts[i] EXCEPT !.count = @ + count]
          ELSE counts[i]]
  ELSE Append(counts, [name |-> name, count |-> count])

RECURSIVE AddCounts(_, _)
AddCounts(counts, entries) ==
  IF entries = <<>> THEN counts
  ELSE AddCounts(AddCount(counts, Head(entries).name, Head(entries).count),
                 Tail(entries))

Arrow == "→"

(* `${route.from}→${route.to}` *)
RouteKey(route) == route.from \o <<Arrow>> \o route.to

RouteEntries(routes) ==
  [i \in 1..Len(routes) |-> [name |-> RouteKey(routes[i]), count |-> routes[i].count]]

RECURSIVE CountAll(_, _, _)
CountAll(ds, f, counts) ==
  IF ds = <<>> THEN counts
  ELSE CountAll(Tail(ds), f,
                AddCounts(counts, IF f = "top_routes"
                                  THEN RouteEntries(Head(ds)[f])
                                  ELSE Head(ds)[f]))

(* sort((a, b) => b[1] - a[1]): descending by count, equal counts keep
   their order. *)
RECURSIVE InsertByCount(_, _)
InsertByCount(sorted, e) ==
  IF sorted = <<>> THEN <<e>>
  ELSE IF e.count > Head(sorted).count THEN <<e>> \o sorted
  ELSE <<Head(sorted)>> \o InsertByCount(Tail(sorted), e)

RECURSIVE SortByCount(_, _)
SortByCount(entries, sorted) ==
  IF entries = <<>> THEN sorted
  ELSE SortByCount(Tail(entries), InsertByCount(sorted, Head(entries)))

TopListLength == 10

(* Object.entries(counts).sort(...).slice(0, 10) *)
TopEntries(ds, f) ==
  LET sorted == SortByCount(CountAll(ds, f, <<>>), <<>>)
  IN SubSeq(sorted, 1, Min2(TopListLength, Len(sorted)))

(* const [from, to] = key.split('→') *)
RouteOf(e) ==
  LET parts == Split(e.name, Arrow)
  IN [from |-> parts[1],
      to |-> IF Len(parts) >= 2 THEN parts[2] ELSE Undefined,
      count |-> e.count]

TopRoutes(ds) ==
  LET top == TopEntries(ds, "top_routes") IN [i \in 1..Len(top) |-> RouteOf(top[i])]

BoxOf(ds, f) == [i \in 1..Len(ds) |-> ds[i].bounding_box[f]]

(* The merged result before the projection. *)
MergedGroup(key, ds) ==
  LET hist == MergeHistograms(ds, [h \in 1..HoursPerDay |-> 0])
  IN [period |-> key,
      trip_count |-> SumField(ds, "trip_count"),
      member_trips |-> SumField(ds, "member_trips"),
      casual_trips |-> SumField(ds, "casual_trips"),
      classic_bikes |-> SumBikeType(ds, "classic"),
      electric_bikes |-> SumBikeType(ds, "electric"),
      hourly_distribution |-> hist,
      peak_hour |-> IndexOfMax(hist),
      top_start_stations |-> TopEntries(ds, "top_start_stations"),
      top_end_stations |-> TopEntries(ds, "top_end_stations"),
      top_routes |-> TopRoutes(ds),
      bounding_box |-> [north |-> MaxOf(BoxOf(ds, "north")),
                        south |-> MinOf(BoxOf(ds, "south")),
                        east |-> MaxOf(BoxOf(ds, "east")),
                        west |-> MinOf(BoxOf(ds, "west"))]]

ProjectedZeroFill(result, fields) ==
  [f \in {"period"} \cup {fields[i] : i \in 1..Len(fields)}
     |-> IF f \in DOMAIN result THEN result[f] ELSE 0]

(* The field filter: period and the listed fields that the result has. *)
Projected(result, fields) ==
  [f \in {"period"} \cup ({fields[i] : i \in 1..Len(fields)} \cap DOMAIN result)
     |-> result[f]]

TransformGroup(key, ds, plan) ==
  LET result == MergedGroup(key, ds)
  IN IF IsSet(plan.fields) /\ Len(Val(plan.fields)) > 0
     THEN Projected(result, Val(plan.fields))
     ELSE result

(* Step 3: Object.entries(grouped).map(transformGroup) *)
TransformStage(groups, plan) ==
  [i \in 1..Len(groups) |-> TransformGroup(groups[i].key, groups[i].days, plan)]

----------------------------------------------------------------------------
(* processIndexData: inputs and steps *)

(* "YYYY-MM-DD", the format of the keys of index.json *)
DateString(y, m, d) == NatToString(y) \o <<"-">> \o Pad2(m) \o <<"-">> \o Pad2(d)

(* A 24-entry histogram from the hours (0..23) that have trips. *)
Histogram(f) == [h \in 1..HoursPerDay |-> IF (h - 1) \in DOMAIN f THEN f[h - 1] ELSE 0]

StationC == <<"C", "a", "n", "a", "l">>

(* An IndexDayData whose counts agree with its histogram. *)
DaySummary(f, member, classic, starts, routes, north, east) ==
  LET hist == Histogram(f)
      total == SumNumbers(hist)
  IN [trip_count |-> total,
      member_trips |-> member,
      casual_trips |-> total - member,
      bike_types |-> [classic |-> classic, electric |-> total - classic],
      peak_hour |-> IndexOfMax(hist),
      hourly_distribution |-> hist,
      top_start_stations |-> starts,
      top_end_stations |-> [i \in 1..Len(starts) |-> starts[Len(starts) + 1 - i]],
      top_routes |-> routes,
      bounding_box |-> [north |-> north, south |-> north - 10,
                        east |-> east, west |-> east - 10]]

StationCount(name, count) == [name |-> name, count |-> count]
RouteCount(from, to, count) == [from |-> from, to |-> to, count |-> count]

(* The days the index files are made of.  2023-01-01 and 2023-12-31 were
   Sundays; 2023-01-02, 2023-12-25, 2024-01-01 and 2024-12-30 Mondays. *)
DayPool ==
  << [date |-> DateString(2022, 12, 31),
      day |-> DaySummary(0 :> 2 @@ 23 :> 3, 3, 2,
                         <<StationCount(StationA, 3), StationCount(StationB, 2)>>,
                         <<RouteCount(StationA, StationB, 2)>>, 4080, -7390)],
     [date |-> DateString(2023, 1, 1),
      day |-> DaySummary(0 :> 4 @@ 1 :> 1, 1, 5,
                         <<StationCount(StationB, 4), StationCount(StationA, 1)>>,
                         <<RouteCount(StationB, StationA, 3)>>, 4085, -7395)],
     [date |-> DateString(2023, 1, 2),
      day |-> DaySummary(8 :> 5 @@ 17 :> 3, 6, 4,
                         <<StationCount(StationA, 5), StationCount(StationC, 3)>>,
                         <<RouteCount(StationA, StationC, 3),
                           RouteCount(StationA, StationB, 1)>>, 4082, -7392)],
     [date |-> DateString(2023, 1, 8),
      day |-> DaySummary(12 :> 1 @@ 17 :> 2, 0, 3,
                         <<StationCount(StationC, 2), StationCount(StationB, 1)>>,
                         <<RouteCount(StationC, StationB, 2)>>, 4079, -7388)],
     [date |-> DateString(2023, 3, 31),
      day |-> DaySummary(8 :> 6 @@ 17 :> 6, 7, 0,
                         <<StationCount(StationB, 6), StationCount(StationC, 6)>>,
                         <<RouteCount(StationB, StationC, 6)>>, 4090, -7380)],
     [date |-> DateString(2023, 4, 1),
      day |-> DaySummary(9 :> 2, 2, 1,
                         <<StationCount(StationA, 2)>>,
                         <<RouteCount(StationA, StationA, 2)>>, 4070, -7399)],
     [date |-> DateString(2023, 12, 25),
      day |-> DaySummary(8 :> 5 @@ 12 :> 4 @@ 13 :> 4, 4, 6,
                         <<StationCount(StationC, 5), StationCount(StationA, 4)>>,
                         <<RouteCount(StationC, StationA, 4)>>, 4081, -7391)],
     [date |-> DateString(2023, 12, 31),
      day |-> DaySummary(12 :> 4 @@ 13 :> 4 @@ 17 :> 5, 5, 3,
                         <<StationCount(StationA, 5), StationCount(StationB, 4)>>,
                         <<RouteCount(StationA, StationB, 5)>>, 4083, -7393)],
     [date |-> DateString(2024, 1, 1),
      day |-> DaySummary(23 :> 1, 1, 1,
                         <<StationCount(StationB, 1)>>,
                         <<RouteCount(StationB, StationB, 1)>>, 4075, -7385)],
     [date |-> DateString(2024, 12, 30),
      day |-> DaySummary(8 :> 3 @@ 18 :> 3, 2, 2,
                         <<StationCount(StationC, 3), StationCount(StationA, 3)>>,
                         <<RouteCount(StationC, StationA, 3)>>, 4088, -7397)] >>

PoolDay(pool, date) == (CHOOSE i \in 1..Len(pool) : pool[i].date = date)

MaxDays == 3

(* The index files: up to MaxDays days of a pool, keyed by date. *)
IndexInputsOf(pool) ==
  { [date \in {pool[i].date : i \in S} |-> pool[PoolDay(pool, date)].day] :
      S \in {T \in SUBSET (1..Len(pool)) : Cardinality(T) <= MaxDays} }

IndexInputs == IndexInputsOf(DayPool)

IndexPlan(dateRange, aggregateBy, fields) ==
  [dateRange |-> dateRange, aggregateBy |-> aggregateBy, fields |-> fields]

DateRange(start, end) == [start |-> start, end |-> end]

DateRanges ==
  { None,
    Some(DateRange(DateString(2023, 1, 1), DateString(2023, 12, 31))),
    Some(DateRange(DateString(2023, 1, 2), DateString(2023, 4, 1))),
    Some(DateRange(DateString(2024, 1, 1), DateString(2023, 1, 1))) }

Periods == {"day", "week", "month", "quarter", "year"}

FieldLists == {None, Some(<<>>), Some(<<"trip_count", "bike_types", "peak_hour">>)}

IndexPlans ==
  { IndexPlan(r, a, f) :
      r \in DateRanges, a \in {None} \cup {Some(p) : p \in Periods}, f \in FieldLists }

ShardIdle ==
  trips = <<>> /\ queryPlan = <<>> /\ data = <<>> /\ entered = <<>> /\ pc = "idle"

InitIndexFrom(inputs) ==
  /\ indexData \in inputs
  /\ indexPlan \in IndexPlans
  /\ dates = <<>>
  /\ groupedDays = <<>>
  /\ indexResult = <<>>
  /\ ipc = "dates"
  /\ ShardIdle
  /\ HandlerIdle

InitIndex == InitIndexFrom(IndexInputs)

(* Step 1: the sorted dates, filtered by the date range *)
DateStep ==
  /\ ipc = "dates"
  /\ dates' = DateStage(indexData, indexPlan)
  /\ ipc' = "group"
  /\ UNCHANGED <<indexData, indexPlan, groupedDays, indexResult, shardVars, handlerVars>>

(* Step 2: the dates grouped by aggregation period *)
BucketStep ==
  /\ ipc = "group"
  /\ groupedDays' = BucketStage(dates, indexData, indexPlan)
  /\ ipc' = "transform"
  /\ UNCHANGED <<indexData, indexPlan, dates, indexResult, shardVars, handlerVars>>

(* Step 3: one row per group *)
TransformStep ==
  /\ ipc = "transform"
  /\ indexResult' = TransformStage(groupedDays, indexPlan)
  /\ ipc' = "done"
  /\ UNCHANGED <<indexData, indexPlan, dates, groupedDays, shardVars, handlerVars>>

NextIndex == DateStep \/ BucketStep \/ TransformStep

SpecIndex == InitIndex /\ [][NextIndex]_vars

(* Index files whose days list many stations: the days of one bucket name
   more than ten stations and routes between them. *)
Station(k) == <<"S", "t", " ">> \o NatToString(k)

StationCounts(names, counts) ==
  [i \in 1..Len(names) |-> StationCount(Station(names[i]), counts[i])]

(* A route from each listed station to the next listed one. *)
RouteCounts(names, counts) ==
  [i \in 1..Len(names) |->
     RouteCount(Station(names[i]), Station(names[(i % Len(names)) + 1]), counts[i])]

BusyDay(f, names, counts) ==
  DaySummary(f, 1, 1, StationCounts(names, counts), RouteCounts(names, counts),
             4080, -7390)

BusyDayPool ==
  << [date |-> DateString(2023, 1, 9),
      day |-> BusyDay(8 :> 39, <<0, 1, 2, 3, 4, 5>>, <<9, 8, 7, 6, 5, 4>>)],
     [date |-> DateString(2023, 1, 10),
      day |-> BusyDay(9 :> 17, <<4, 5, 6, 7, 8, 9>>, <<5, 5, 3, 2, 1, 1>>)],
     [date |-> DateString(2023, 1, 11),
      day |-> BusyDay(10 :> 19, <<10, 11, 9>>, <<1, 10, 8>>)],
     [date |-> DateString(2023, 2, 1),
      day |-> BusyDay(11 :> 7, <<11, 0>>, <<4, 3>>)] >>

InitBusy == InitIndexFrom(IndexInputsOf(BusyDayPool))

SpecBusy == InitBusy /\ [][NextIndex]_vars

----------------------------------------------------------------------------
(* Claims about processIndexData *)

Bucketed == ipc \in {"transform", "done"}

(* Day number, counted from 1970-01-01, of a date "YYYY-MM-DD". *)
DayNumber(date) ==
  DaysFromCivil(DigitsFrom(SubSeq(date, 1, 4), 1, 0),
                DigitsFrom(SubSeq(date, 6, 7), 1, 0),
                DigitsFrom(SubSeq(date, 9, 10), 1, 0))

(* ISO 8601: Monday is day 1 and Sunday day 7; 1970-01-01 was a Thursday. *)
IsoWeekday(date) == ((DayNumber(date) + 3) % 7) + 1

IsoThursday(date) == DayNumber(date) - IsoWeekday(date) + 4

(* The ISO week-year: the year of the Thursday of the date's week. *)
IsoWeekYear(date) ==
  YearOfDay(IsoThursday(date), DigitsFrom(SubSeq(date, 1, 4), 1, 0))

IsoWeekNumber(date) ==
  ((IsoThursday(date) - DaysFromCivil(IsoWeekYear(date), 1, 1)) \div 7) + 1

IsoWeekId(date) ==
  NatToString(IsoWeekYear(date)) \o <<"-", "W">> \o Pad2(IsoWeekNumber(date))

(* C16: with aggregateBy week, every date is in the bucket whose key is the
   date's ISO-8601 week id YYYY-Wnn, YYYY being the ISO week-year (the year of
   the Thursday of the date's week) and nn the ISO week number. *)
C16_IsoWeekKey ==
  (Bucketed /\ PeriodOf(indexPlan) = "week") =>
    \A i \in 1..Len(groupedDays) :
      \A j \in 1..Len(groupedDays[i].dates) :
        groupedDays[i].key = IsoWeekId(groupedDays[i].dates[j])

Retained(date) ==
  IsSet(indexPlan.dateRange) =>
    /\ StringLessEq(Val(indexPlan.dateRange).start, date)
    /\ StringLessEq(date, Val(indexPlan.dateRange).end)

EmptyRange ==
  /\ IsSet(indexPlan.dateRange)
  /\ StringLess(Val(indexPlan.dateRange).end, Val(indexPlan.dateRange).start, 1)

(* C17: the dates kept are exactly the dates d of the index with
   start <= d <= end in string order, all of them when there is no date range;
   a range with start > end keeps none and the output is then empty. *)
C17_DateRange ==
  (ipc # "dates") =>
    /\ {dates[i] : i \in 1..Len(dates)} = {d \in DOMAIN indexData : Retained(d)}
    /\ Len(dates) = Cardinality({d \in DOMAIN indexData : Retained(d)})
    /\ EmptyRange => dates = <<>>
    /\ (EmptyRange /\ ipc = "done") => indexResult = <<>>

C17_Witness ==
  /\ ipc = "done"
  /\ IsSet(indexPlan.dateRange)
  /\ \E d \in DOMAIN indexData : ~Retained(d)
  /\ \E i \in 1..Len(dates) : dates[i] = Val(indexPlan.dateRange).end
  /\ Len(indexResult) > 0

BucketKey(date) == GetAggregationKey(date, PeriodOf(indexPlan))

BucketDatesOf(key) == {i \in 1..Len(dates) : BucketKey(dates[i]) = key}

(* The earliest date among the retained dates of a bucket. *)
EarliestDate(key) ==
  CHOOSE d \in {dates[i] : i \in BucketDatesOf(key)} :
    \A i \in BucketDatesOf(key) : StringLessEq(d, dates[i])

(* C18: there is exactly one output row per distinct bucket key of the
   retained dates, and the rows are in the order of the earliest member date
   of their buckets. *)
C18_RowPerBucket ==
  (ipc = "done") =>
    /\ {indexResult[i].period : i \in 1..Len(indexResult)}
         = {BucketKey(dates[i]) : i \in 1..Len(dates)}
    /\ Len(indexResult) = Cardinality({BucketKey(dates[i]) : i \in 1..Len(dates)})
    /\ \A i, j \in 1..Len(indexResult) :
         i < j => StringLess(EarliestDate(indexResult[i].period),
                             EarliestDate(indexResult[j].period), 1)

C18_Witness ==
  /\ ipc = "done"
  /\ PeriodOf(indexPlan) = "year"
  /\ Len(indexResult) >= 2
  /\ \E i \in 1..Len(indexResult) :
       Cardinality(BucketDatesOf(indexResult[i].period)) >= 2

Unprojected == ~IsSet(indexPlan.fields) \/ Val(indexPlan.fields) = <<>>

(* The sum of a value over the retained days of a bucket. *)
BucketSum(key, value(_)) ==
  SumSeq([i \in 1..Len(dates) |->
            IF i \in BucketDatesOf(key) THEN value(indexData[dates[i]]) ELSE 0])

TripCountOf(day) == day.trip_count
MemberTripsOf(day) == day.member_trips
CasualTripsOf(day) == day.casual_trips
ClassicOf(day) == day.bike_types.classic
ElectricOf(day) == day.bike_types.electric

(* C19: in every unprojected output row, trip_count, member_trips,
   casual_trips and the classic and electric bike counts are the sums of the
   days' values over exactly the days of the row's bucket. *)
C19_ScalarSums ==
  (ipc = "done" /\ Unprojected) =>
    \A i \in 1..Len(indexResult) :
      LET row == indexResult[i]
      IN /\ row.trip_count = BucketSum(row.period, TripCountOf)
         /\ row.member_trips = BucketSum(row.period, MemberTripsOf)
         /\ row.casual_trips = BucketSum(row.period, CasualTripsOf)
         /\ row.classic_bikes = BucketSum(row.period, ClassicOf)
         /\ row.electric_bikes = BucketSum(row.period, ElectricOf)

C19_Witness ==
  /\ ipc = "done"
  /\ Unprojected
  /\ Len(indexResult) >= 2
  /\ \E i \in 1..Len(indexResult) :
       /\ Cardinality(BucketDatesOf(indexResult[i].period)) >= 2
       /\ indexResult[i].member_trips > 0
       /\ indexResult[i].classic_bikes > 0

(* The merged histogram of the days at the places S of `dates`: entry h + 1
   is the sum of the days' trips of hour h. *)
MergedHours(S) ==
  [h \in 1..HoursPerDay |->
     SumSeq([i \in 1..Len(dates) |->
               IF i \in S THEN indexData[dates[i]].hourly_distribution[h] ELSE 0])]

IsPeak(hist, h) == \A k \in 1..HoursPerDay : hist[k] <= hist[h + 1]

(* C20: the peak_hour of a row is the lowest hour 0..23 at which the merged
   histogram of its bucket has its maximum, whatever the peak_hour values of
   the member days are. *)
C20_PeakHour ==
  (ipc = "done") =>
    \A i \in 1..Len(indexResult) :
      "peak_hour" \in DOMAIN indexResult[i] =>
        \A S \in {BucketDatesOf(indexResult[i].period)} :
          \A hist \in {MergedHours(S)} :
            LET h == indexResult[i].peak_hour
            IN /\ h \in 0..(HoursPerDay - 1)
               /\ IsPeak(hist, h)
               /\ \A k \in 0..(h - 1) : ~IsPeak(hist, k)

C20_Witness ==
  /\ ipc = "done"
  /\ \E i \in 1..Len(indexResult) :
       /\ "peak_hour" \in DOMAIN indexResult[i]
       /\ \E S \in {BucketDatesOf(indexResult[i].period)} :
            \E hist \in {MergedHours(S)} :
              /\ Cardinality(S) >= 2
              /\ \E k \in (indexResult[i].peak_hour + 1)..(HoursPerDay - 1) :
                   IsPeak(hist, k)
              /\ \A j \in S :
                   indexData[dates[j]].peak_hour # indexResult[i].peak_hour

TopFields == {"top_start_stations", "top_end_stations", "top_routes"}

(* What an entry of a top list is about: a station, or a route from a
   station to a station. *)
EntryName(f, e) == IF f = "top_routes" THEN <<e.from, e.to>> ELSE e.name

(* The entries of the list f of the days at the places S of `dates`. *)
DayEntries(S, f) ==
  UNION { { [at |-> <<i, k>>, name |-> EntryName(f, indexData[dates[i]][f][k]),
             count |-> indexData[dates[i]][f][k].count] :
              k \in 1..Len(indexData[dates[i]][f]) } : i \in S }

RECURSIVE SumCounts(_)
SumCounts(es) ==
  IF es = {} THEN 0
  ELSE LET e == CHOOSE x \in es : TRUE IN e.count + SumCounts(es \ {e})

NameTotal(entries, name) == SumCounts({e \in entries : e.name = name})

(* C21: each merged top list has at most 10 entries, lists a name at most
   once, with the sum of the name's counts over the member days, is sorted by
   count in non-increasing order and leaves out no name whose sum is greater
   than that of a listed name. *)
C21_TopLists ==
  (ipc = "done") =>
    \A r \in 1..Len(indexResult) : \A f \in TopFields \cap DOMAIN indexResult[r] :
      \A entries \in {DayEntries(BucketDatesOf(indexResult[r].period), f)} :
        LET list == indexResult[r][f]
            listed == {EntryName(f, list[k]) : k \in 1..Len(list)}
        IN /\ Len(list) <= 10
           /\ \A k, m \in 1..Len(list) :
                k # m => EntryName(f, list[k]) # EntryName(f, list[m])
           /\ \A k \in 1..Len(list) :
                list[k].count = NameTotal(entries, EntryName(f, list[k]))
           /\ \A k \in 1..(Len(list) - 1) : list[k].count >= list[k + 1].count
           /\ \A e \in entries :
                e.name \notin listed =>
                  \A k \in 1..Len(list) : NameTotal(entries, e.name) <= list[k].count

C21_Witness ==
  /\ ipc = "done"
  /\ \E r \in 1..Len(indexResult) :
       /\ "top_start_stations" \in DOMAIN indexResult[r]
       /\ \E entries \in {DayEntries(BucketDatesOf(indexResult[r].period),
                                     "top_start_stations")} :
            /\ Len(indexResult[r].top_start_stations) = 10
            /\ Len(indexResult[r].top_routes) = 10
            /\ Cardinality({e.name : e \in entries}) > 10
            /\ \E e1, e2 \in entries : e1.name = e2.name /\ e1.at # e2.at

(* The field names of the merged result of transformGroup. *)
MergedFields ==
  {"period", "trip_count", "member_trips", "casual_trips", "classic_bikes",
   "electric_bikes", "hourly_distribution", "peak_hour", "top_start_stations",
   "top_end_stations", "top_routes", "bounding_box"}

ListedFields == {Val(indexPlan.fields)[i] : i \in 1..Len(Val(indexPlan.fields))}

(* The days of a bucket, in the order of their dates. *)
RECURSIVE DaysOf(_, _)
DaysOf(key, i) ==
  IF i > Len(dates) THEN <<>>
  ELSE IF BucketKey(dates[i]) = key
       THEN <<indexData[dates[i]]>> \o DaysOf(key, i + 1)
       ELSE DaysOf(key, i + 1)

(* C22: with a non-empty plan.fields every output row has exactly period and
   the listed fields that the merged result has, with their merged values, a
   listed field that the merged result lacks being in no row; with fields
   absent or empty every row has all the fields of the merged result. *)
C22_Projection ==
  (ipc = "done") =>
    \A r \in 1..Len(indexResult) :
      \A merged \in {MergedGroup(indexResult[r].period,
                                 DaysOf(indexResult[r].period, 1))} :
        /\ DOMAIN merged = MergedFields
        /\ DOMAIN indexResult[r] =
             IF Unprojected THEN MergedFields
             ELSE {"period"} \cup (ListedFields \cap MergedFields)
        /\ \A f \in DOMAIN indexResult[r] : indexResult[r][f] = merged[f]
        /\ "trip_count" \in DOMAIN indexResult[r] =>
             indexResult[r].trip_count = BucketSum(indexResult[r].period, TripCountOf)

C22_Witness ==
  /\ ipc = "done"
  /\ ~Unprojected
  /\ ListedFields \ MergedFields # {}
  /\ ListedFields \cap MergedFields # {}
  /\ Len(indexResult) >= 2
  /\ \A r \in 1..Len(indexResult) : ListedFields \ DOMAIN indexResult[r] # {}

(* The field names of a day of the index (IndexDayData). *)
DailySummaryFields ==
  {"trip_count", "member_trips", "casual_trips", "bike_types", "peak_hour",
   "hourly_distribution", "top_start_stations", "top_end_stations",
   "top_routes", "bounding_box"}

(* C23: an unprojected output row has the field names of a day of the index
   (bike_types with classic and electric among them) and period, so that a
   projection listing a field name of a day has that field in every row. *)
C23_RowShape ==
  (ipc = "done") =>
    \A r \in 1..Len(indexResult) :
      /\ Unprojected =>
           /\ DOMAIN indexResult[r] = DailySummaryFields \cup {"period"}
           /\ DOMAIN indexResult[r].bike_types = {"classic", "electric"}
      /\ ~Unprojected =>
           \A f \in ListedFields \cap DailySummaryFields : f \in DOMAIN indexResult[r]

(* C24: for a bucket whose days all have 24-entry histograms, the merged
   histogram has 24 entries, entry h being the sum of the days' entries h;
   when each day's histogram sums to its trip_count, the merged histogram
   sums to the merged trip_count. *)
C24_Histogram ==
  (ipc = "done") =>
    \A r \in 1..Len(indexResult) :
      "hourly_distribution" \in DOMAIN indexResult[r] =>
        \A S \in {BucketDatesOf(indexResult[r].period)} :
          (\A i \in S : Len(indexData[dates[i]].hourly_distribution) = 24) =>
            /\ Len(indexResult[r].hourly_distribution) = 24
            /\ indexResult[r].hourly_distribution = MergedHours(S)
            /\ (/\ "trip_count" \in DOMAIN indexResult[r]
                /\ \A i \in S : SumSeq(indexData[dates[i]].hourly_distribution)
                                  = indexData[dates[i]].trip_count)
                 => SumSeq(indexResult[r].hourly_distribution)
                      = indexResult[r].trip_count

C24_Witness ==
  /\ ipc = "done"
  /\ \E r \in 1..Len(indexResult) :
       /\ "hourly_distribution" \in DOMAIN indexResult[r]
       /\ \E S \in {BucketDatesOf(indexResult[r].period)} :
            /\ Cardinality(S) >= 2
            /\ \E h \in 1..HoursPerDay :
                 \A i \in S : indexData[dates[i]].hourly_distribution[h] > 0
            /\ \A i \in S : SumSeq(indexData[dates[i]].hourly_distribution)
                              = indexData[dates[i]].trip_count

(* The Monday of the week of a date, as a day number. *)
MondayOf(date) == DayNumber(date) - IsoWeekday(date) + 1

(* C27: the days of a bucket are a run of neighbours in the ascending
   retained dates: no retained date of another bucket lies between two days of
   one bucket; two dates of one week bucket lie in the same Monday-to-Sunday
   week. *)
C27_ContiguousBuckets ==
  Bucketed =>
    \A i, j \in 1..Len(dates) :
      (i < j /\ BucketKey(dates[i]) = BucketKey(dates[j])) =>
        /\ \A k \in i..j : BucketKey(dates[k]) = BucketKey(dates[i])
        /\ PeriodOf(indexPlan) = "week" => MondayOf(dates[i]) = MondayOf(dates[j])

RetainedDates == {d \in DOMAIN indexData : Retained(d)}

RECURSIVE SumTrips(_)
SumTrips(ds) ==
  IF ds = {} THEN 0
  ELSE LET d == CHOOSE x \in ds : TRUE
       IN indexData[d].trip_count + SumTrips(ds \ {d})

(* The places <<bucket, place in the bucket>> that hold the summary of a date *)
PlacesOf(date) ==
  {<<g, k>> \in (1..Len(groupedDays)) \X (1..MaxDays + 1) :
     /\ k <= Len(groupedDays[g].dates)
     /\ groupedDays[g].dates[k] = date}

(* C28: the buckets partition the retained dates: the summary of each
   retained date is in exactly one bucket, once; each bucket has a member; no
   other date is in a bucket; the trip_count values of the unprojected output
   rows sum to the sum of trip_count over the retained days. *)
C28_Partition ==
  Bucketed =>
    /\ \A d \in RetainedDates :
         /\ Cardinality(PlacesOf(d)) = 1
         /\ \A p \in PlacesOf(d) : groupedDays[p[1]].days[p[2]] = indexData[d]
    /\ \A g \in 1..Len(groupedDays) :
         /\ Len(groupedDays[g].days) >= 1
         /\ Len(groupedDays[g].days) = Len(groupedDays[g].dates)
         /\ \A k \in 1..Len(groupedDays[g].dates) :
              groupedDays[g].dates[k] \in RetainedDates
    /\ (ipc = "done" /\ Unprojected) =>
         SumSeq([r \in 1..Len(indexResult) |-> indexResult[r].trip_count])
           = SumTrips(RetainedDates)

C28_Witness ==
  /\ ipc = "done"
  /\ Unprojected
  /\ RetainedDates # DOMAIN indexData
  /\ \E g \in 1..Len(groupedDays) : Len(groupedDays[g].days) >= 2

----------------------------------------------------------------------------
(* The POST handler of /api/query (route.ts) *)

(* processShardData as one call: its rows, or that it threw. *)
ProcessShardData(input, plan) ==
  LET calculated == CalculateStage(input, plan)
  IN IF FilterStageThrows(calculated, plan)
     THEN [threw |-> TRUE, rows |-> <<>>]
     ELSE [threw |-> FALSE,
           rows |-> LimitStage(SortStage(GroupStage(FilterStage(calculated, plan),
                                                   plan), plan), plan)]

(* processIndexData as one call *)
ProcessIndexData(index, plan) ==
  TransformStage(BucketStage(DateStage(index, plan), index, plan), plan)

(* NextResponse.json(body, {status}): whether the body is the chart
   configuration, and its data when the handler set it. *)
Response(status, error, chart, rows) ==
  [status |-> status, error |-> error, chart |-> chart, data |-> rows]

ErrorResponse(status, error) == Response(status, error, FALSE, None)

Invocation(fn, input, plan) == [fn |-> fn, input |-> input, plan |-> plan]

RouteShardsFirst(answer) ==
  IF answer.needsShards THEN "shards"
  ELSE IF answer.needsIndex THEN "index"
  ELSE "direct"

(* if (jsonResponse.needsIndex) ... if (jsonResponse.needsShards) ...; the
   first branch returns. *)
Route(answer) ==
  IF answer.needsIndex THEN "index"
  ELSE IF answer.needsShards THEN "shards"
  ELSE "direct"

SettleWhenAllDone(states) ==
  IF \A i \in 1..Len(states) : states[i] # "pending" THEN "fulfilled" ELSE "pending"

(* Promise.all: rejected once an element is rejected, fulfilled once all
   elements are fulfilled. *)
Settle(states) ==
  IF \E i \in 1..Len(states) : states[i] = "rejected" THEN "rejected"
  ELSE IF \A i \in 1..Len(states) : states[i] = "fulfilled" THEN "fulfilled"
  ELSE "pending"

StoreNext(values, i, v) ==
  LET k == CHOOSE m \in 1..Len(values) :
             ~IsSet(values[m]) /\ \A n \in 1..(m - 1) : IsSet(values[n])
  IN [values EXCEPT ![k] = Some(v)]

(* Promise.all keeps the value of element i at place i. *)
StoreAt(values, i, v) == [values EXCEPT ![i] = Some(v)]

(* shardDataArrays.flat(): the shards' records, shard after shard. *)
RECURSIVE Flat(_)
Flat(values) ==
  IF values = <<>> THEN <<>>
  ELSE (IF IsSet(Head(values)) THEN Val(Head(values)) ELSE <<>>) \o Flat(Tail(values))

(* The planner's chart configuration, stripped of markdown fences, parsed. *)
Answer(needsIndex, needsShards, shardsToFetch, plan, indexProcessing) ==
  [needsIndex |-> needsIndex, needsShards |-> needsShards,
   shardsToFetch |-> shardsToFetch, queryPlan |-> plan,
   indexUrl |-> "index.json", indexProcessing |-> indexProcessing]

Reply(kind, answer) == [kind |-> kind, answer |-> answer]

ShardUrls == {"shard-a.json", "shard-b.json", "shard-c.json", "shard-d.json"}

(* What the shard URLs serve. *)
ShardOf(url) ==
  CASE url = "shard-a.json" -> <<TripPool[1]>>
    [] url = "shard-b.json" -> <<TripPool[2], TripPool[3]>>
    [] url = "shard-c.json" -> <<>>
    [] url = "shard-d.json" -> <<TripPool[4]>>

(* What the index URL serves: {daily: {...}} *)
IndexFile ==
  [daily |-> [date \in {DayPool[3].date, DayPool[4].date, DayPool[5].date}
                |-> DayPool[PoolDay(DayPool, date)].day]]

MaxShards == 3

ShardLists ==
  UNION { {q \in [1..n -> ShardUrls] : \A i, j \in 1..n : i # j => q[i] # q[j]} :
            n \in 0..MaxShards }

HandlerPlans ==
  {Plan(None, None, None, None, None, None),
   Plan(None, None, Some("rideable_type"), Some(Aggregate("count", "*")), None, None),
   Plan(None, Some(<<MalformedFilters[1]>>), None, None, None, None)}

HandlerIndexPlans ==
  {IndexPlan(None, Some("week"), None),
   IndexPlan(None, Some("month"), Some(<<"trip_count", "peak_hour">>))}

NoAnswer == Answer(FALSE, FALSE, None, Plan(None, None, None, None, None, None),
                   IndexPlan(None, None, None))

Answers ==
  {Answer(i, n, l, pl, ip) :
     i \in BOOLEAN, n \in {TRUE}, l \in {None} \cup {Some(q) : q \in ShardLists},
     pl \in HandlerPlans, ip \in {IndexPlan(None, Some("week"), None)}}
  \cup
  {Answer(i, FALSE, None, Plan(None, None, None, None, None, None), ip) :
     i \in BOOLEAN, ip \in HandlerIndexPlans}

InitHandler ==
  /\ \/ /\ request \in {"bad_json", "no_prompt"}
        /\ apiKey = TRUE
        /\ reply = Reply("answer", NoAnswer)
     \/ /\ request = "prompt"
        /\ apiKey = FALSE
        /\ reply = Reply("answer", NoAnswer)
     \/ /\ request = "prompt"
        /\ apiKey = TRUE
        /\ reply \in {Reply(k, NoAnswer) : k \in {"throws", "text", "null"}}
                       \cup {Reply("answer", a) : a \in Answers}
  /\ hpc = "request"
  /\ fetchState = <<>>
  /\ shardDataArrays = <<>>
  /\ promiseAll = "none"
  /\ responses = <<>>
  /\ invocations = <<>>
  /\ fetchLog = <<>>
  /\ arrivals = <<>>
  /\ ShardIdle
  /\ IndexIdle

Respond(r) == responses' = Append(responses, r) /\ hpc' = "done"

(* request.json(), the prompt and the API key *)
ReceiveRequest ==
  /\ hpc = "request"
  /\ CASE request = "bad_json" -> Respond(ErrorResponse(500, "Internal server error"))
       [] request = "no_prompt" -> Respond(ErrorResponse(400, "Prompt is required"))
       [] ~apiKey -> Respond(ErrorResponse(500, "GEMINI_API_KEY not configured"))
       [] OTHER -> hpc' = "generate" /\ UNCHANGED responses
  /\ UNCHANGED <<request, apiKey, reply, fetchState, shardDataArrays, promiseAll,
                 invocations, fetchLog, arrivals, shardVars, indexVars>>

(* The shard fetches are started, all at once. *)
StartShards(urls) ==
  /\ fetchState' = [i \in 1..Len(urls) |-> "pending"]
  /\ shardDataArrays' = [i \in 1..Len(urls) |-> None]
  /\ promiseAll' = Settle([i \in 1..Len(urls) |-> "pending"])
  /\ fetchLog' = fetchLog \o urls
  /\ hpc' = "await_shards"
  /\ UNCHANGED responses

(* generateContent, JSON.parse and the choice of the path *)
AskPlanner ==
  /\ hpc = "generate"
  /\ CASE reply.kind = "throws" ->
            /\ Respond(ErrorResponse(500, "Internal server error"))
            /\ UNCHANGED <<fetchState, shardDataArrays, promiseAll, fetchLog>>
       [] reply.kind = "text" ->
            /\ Respond(ErrorResponse(500, "Invalid response from LLM"))
            /\ UNCHANGED <<fetchState, shardDataArrays, promiseAll, fetchLog>>
       [] reply.kind = "null" ->
            /\ Respond(ErrorResponse(500, "Internal server error"))
            /\ UNCHANGED <<fetchState, shardDataArrays, promiseAll, fetchLog>>
       [] OTHER ->
            CASE Route(reply.answer) = "index" ->
                   /\ fetchLog' = Append(fetchLog, reply.answer.indexUrl)
                   /\ hpc' = "await_index"
                   /\ UNCHANGED <<fetchState, shardDataArrays, promiseAll, responses>>
              [] Route(reply.answer) = "shards" ->
                   IF IsSet(reply.answer.shardsToFetch)
                   THEN StartShards(Val(reply.answer.shardsToFetch))
                   ELSE /\ Respond(ErrorResponse(500, "Failed to process shard data"))
                        /\ UNCHANGED <<fetchState, shardDataArrays, promiseAll,
                                       fetchLog>>
              [] OTHER ->
                   /\ Respond(Response(200, "", TRUE, None))
                   /\ UNCHANGED <<fetchState, shardDataArrays, promiseAll, fetchLog>>
  /\ UNCHANGED <<request, apiKey, reply, invocations, arrivals, shardVars, indexVars>>

(* The index fetch settles: the index is processed, or the fetch failed. *)
IndexFetched ==
  /\ hpc = "await_index"
  /\ \E ok \in BOOLEAN :
       IF ok
       THEN /\ invocations' = Append(invocations,
                                     Invocation("processIndexData", IndexFile.daily,
                                                reply.answer.indexProcessing))
            /\ Respond(Response(200, "", TRUE,
                                Some(ProcessIndexData(IndexFile.daily,
                                                      reply.answer.indexProcessing))))
       ELSE /\ Respond(ErrorResponse(500, "Failed to process index data"))
            /\ UNCHANGED invocations
  /\ UNCHANGED <<request, apiKey, reply, fetchState, shardDataArrays, promiseAll,
                 fetchLog, arrivals, shardVars, indexVars>>

(* The handler's continuation is a promise job: once the Promise.all is
   settled it runs before the completion of another fetch is handled. *)
ContinuationReady == hpc = "await_shards" /\ promiseAll # "pending"

(* The fetch of shard i yields its records. *)
FetchFulfils ==
  \E i \in 1..Len(fetchState) :
    /\ ~ContinuationReady
    /\ fetchState[i] = "pending"
    /\ fetchState' = [fetchState EXCEPT ![i] = "fulfilled"]
    /\ shardDataArrays' = StoreAt(shardDataArrays, i, ShardOf(fetchLog[i]))
    /\ promiseAll' = Settle(fetchState')
    /\ arrivals' = Append(arrivals, i)
    /\ UNCHANGED <<request, apiKey, reply, hpc, responses, invocations, fetchLog,
                   shardVars, indexVars>>

(* The fetch of shard i fails: the network, a status that is not ok, or a
   body that is no JSON. *)
FetchRejects ==
  \E i \in 1..Len(fetchState) :
    /\ ~ContinuationReady
    /\ fetchState[i] = "pending"
    /\ fetchState' = [fetchState EXCEPT ![i] = "rejected"]
    /\ promiseAll' = Settle(fetchState')
    /\ arrivals' = Append(arrivals, i)
    /\ UNCHANGED <<request, apiKey, reply, hpc, shardDataArrays, responses,
                   invocations, fetchLog, shardVars, indexVars>>

(* The await of Promise.all returns: flat, processShardData, the response. *)
ResumeShards ==
  /\ hpc = "await_shards"
  /\ promiseAll = "fulfilled"
  /\ LET allTrips == Flat(shardDataArrays)
         processed == ProcessShardData(allTrips, reply.answer.queryPlan)
     IN /\ invocations' = Append(invocations,
                                 Invocation("processShardData", allTrips,
                                            reply.answer.queryPlan))
        /\ IF processed.threw
           THEN Respond(ErrorResponse(500, "Failed to process shard data"))
           ELSE Respond(Response(200, "", TRUE, Some(processed.rows)))
  /\ UNCHANGED <<request, apiKey, reply, fetchState, shardDataArrays, promiseAll,
                 fetchLog, arrivals, shardVars, indexVars>>

(* The await of Promise.all throws: the catch of the shard path. *)
CatchShards ==
  /\ hpc = "await_shards"
  /\ promiseAll = "rejected"
  /\ Respond(ErrorResponse(500, "Failed to process shard data"))
  /\ UNCHANGED <<request, apiKey, reply, fetchState, shardDataArrays, promiseAll,
                 invocations, fetchLog, arrivals, shardVars, indexVars>>

NextHandler ==
  \/ ReceiveRequest
  \/ AskPlanner
  \/ IndexFetched
  \/ FetchFulfils
  \/ FetchRejects
  \/ ResumeShards
  \/ CatchShards

SpecHandler == InitHandler /\ [][NextHandler]_vars

----------------------------------------------------------------------------
(* Claims about the POST handler *)

ShardInvocations ==
  {k \in 1..Len(invocations) : invocations[k].fn = "processShardData"}

IndexInvocations ==
  {k \in 1..Len(invocations) : invocations[k].fn = "processIndexData"}

(* C25: processShardData is called only when every URL of shardsToFetch has
   been fetched with success; when a fetch has failed it is never called and
   the response is an error of status 500 without chart data, in whatever
   order the fetches settle. *)
C25_AllShardsFirst ==
  /\ ShardInvocations # {} =>
       /\ fetchLog = Val(reply.answer.shardsToFetch)
       /\ Len(fetchState) = Len(fetchLog)
       /\ \A i \in 1..Len(fetchState) : fetchState[i] = "fulfilled"
  /\ (\E i \in 1..Len(fetchState) : fetchState[i] = "rejected") =>
       /\ ShardInvocations = {}
       /\ hpc = "done" =>
            /\ Len(responses) = 1
            /\ responses[1].status = 500
            /\ ~responses[1].chart
            /\ ~IsSet(responses[1].data)

C25_Witness ==
  /\ hpc = "done"
  /\ Len(fetchState) >= 3
  /\ \E i \in 1..Len(fetchState) : fetchState[i] = "rejected"
  /\ \E i \in 1..Len(fetchState) : fetchState[i] = "pending"
  /\ fetchState[arrivals[1]] = "fulfilled"
  /\ responses[1].status = 500

BothRequested ==
  reply.kind = "answer" /\ reply.answer.needsIndex /\ reply.answer.needsShards

(* C26: a request calls at most one of processIndexData and processShardData
   and gets exactly one response; when the planner's answer sets needsIndex
   and needsShards, only the index path runs and no shard is fetched. *)
C26_OnePath ==
  /\ Len(invocations) <= 1
  /\ Len(responses) <= 1
  /\ hpc = "done" <=> Len(responses) = 1
  /\ BothRequested =>
       /\ ShardInvocations = {}
       /\ fetchState = <<>>
       /\ \A k \in 1..Len(fetchLog) : fetchLog[k] \notin ShardUrls

C26_Witness ==
  /\ hpc = "done"
  /\ BothRequested
  /\ IsSet(reply.answer.shardsToFetch)
  /\ Len(Val(reply.answer.shardsToFetch)) >= 2
  /\ IndexInvocations # {}
  /\ Len(responses) = 1
  /\ responses[1].status = 200

(* The shards of the URLs, shard after shard in the order of the URLs. *)
RECURSIVE ConcatShards(_)
ConcatShards(urls) ==
  IF urls = <<>> THEN <<>> ELSE ShardOf(Head(urls)) \o ConcatShards(Tail(urls))

(* C29: the records passed to processShardData are the fetched shards put
   together in the order of the URLs of shardsToFetch, in whatever order the
   fetches settle, and the response is the result for these records. *)
C29_UrlOrder ==
  \A k \in ShardInvocations :
    /\ invocations[k].input = ConcatShards(Val(reply.answer.shardsToFetch))
    /\ invocations[k].plan = reply.answer.queryPlan
    /\ hpc = "done"
    /\ \A expected \in {ProcessShardData(ConcatShards(Val(reply.answer.shardsToFetch)),
                                         reply.answer.queryPlan)} :
         IF expected.threw
         THEN responses[1].status = 500 /\ ~IsSet(responses[1].data)
         ELSE responses[1].status = 200 /\ responses[1].data = Some(expected.rows)

C29_Witness ==
  /\ hpc = "done"
  /\ ShardInvocations # {}
  /\ Len(arrivals) >= 3
  /\ \A i \in 1..(Len(arrivals) - 1) : arrivals[i] > arrivals[i + 1]
  /\ \A i \in 1..Len(arrivals) : ShardOf(fetchLog[i]) # <<>>
  /\ responses[1].status = 200
  /\ Len(Val(responses[1].data)) >= 2

====
